---- MODULE Spec2Model ----
(***************************************************************************)
(* galahad-linux-control.                                                  *)
(*                                                                         *)
(* Spec        the transport framer (send_h264_frame, set_rgb_color) and   *)
(*             the main loop that drives it.  The endpoint is the log of   *)
(*             the write calls made on it.  Byte buffers are sequences of  *)
(*             integers 0..255; a Python offset i is the element i+1.      *)
(* SpecFrame   the frame composer (load_background, create_frame,          *)
(*             _get_cpu_metrics) under the calls main makes on it and      *)
(*             under direct calls.  Rasters are records on a heap.         *)
(* SpecScale   load_background as a function of the source image.          *)
(* SpecMatrix  MatrixPreset: construction and calls of render.             *)
(* SpecPulse   HeartbeatPreset's pulse intensity and block lookup.         *)
(* SpecShade   MatrixPreset's shade of a trail segment.                    *)
(* SpecColor   parse_color as a function of its string.                    *)
(* SpecArgs    parse_args as a function of command line and config file.   *)
(* SpecHeartbeat  HeartbeatPreset: construction and calls of render.       *)
(* SpecPresets    both animation engines.                                  *)
(* SpecCleanup    cleanup_device, called repeatedly on one device.         *)
(*                                                                         *)
(* Each specification holds the variables of the other parts constant.     *)
(***************************************************************************)
EXTENDS Integers, Sequences, FiniteSets, TLC

\* the transport and the main loop
VARIABLES ctx, pc, args, bg_image, h264_data, offset, seq, writes, iter, err,
          cleanups

\* the frame composer: image_processor.py and the calls main makes on it
VARIABLES fctx, fpc, fargs, fiter, heap, bg_image_cache, bg_image_cache_key,
          last_cpu_percent, bg_obj, img, handed, call, opens, last_ok, samples

\* presets.py MatrixPreset
VARIABLES mctx, columns, frame_count

\* the pure functions checked on drawn inputs
VARIABLES fn_in, fn_out

\* presets.py HeartbeatPreset
VARIABLES hctx, hb_frame_count, cpu_history, hb_current_cpu, hb_log,
          fc_match_runs

\* usb_device.py cleanup_device called directly
VARIABLES cctx, cpc, device, dev_log, ccalls

usbVars == <<ctx, pc, args, bg_image, h264_data, offset, seq, writes, iter, err,
             cleanups>>

composerVars == <<fctx, fpc, fargs, fiter, heap, bg_image_cache,
                  bg_image_cache_key, last_cpu_percent, bg_obj, img, handed,
                  call, opens, last_ok, samples>>

matrixVars == <<mctx, columns, frame_count>>

fnVars == <<fn_in, fn_out>>

heartVars == <<hctx, hb_frame_count, cpu_history, hb_current_cpu, hb_log,
               fc_match_runs>>

cleanupVars == <<cctx, cpc, device, dev_log, ccalls>>

vars == <<usbVars, composerVars, matrixVars, fnVars, heartVars, cleanupVars>>

----------------------------------------------------------------------------
(* Bounds of the model *)

\* iterations of the main loop that are explored
MaxFrames == 2
\* calls a direct user of the API makes on one endpoint
MaxCalls == 2
\* the longest payload explored is MaxChunks full chunks plus one byte
MaxChunks == 2
\* calls a direct user makes on load_background and create_frame
MaxBgCalls == 3
\* calls of MatrixPreset.render on one preset object
MaxRenders == 213

----------------------------------------------------------------------------
(* config.py *)

USBProtocol_HEADER_BYTE_1 == 2
USBProtocol_HEADER_BYTE_2 == 13
USBProtocol_CHUNK_SIZE == 1013
USBProtocol_MAX_PACKET_SIZE == 1024

RGBPacket_SIZE == 64
RGBPacket_HEADER_BYTE == 1
RGBPacket_COLOR_CMD == 131
RGBPacket_COLOR_OFFSET == 5
RGBPacket_PAYLOAD_SIZE == 19

VideoPacket_HEADER_1 == 0
VideoPacket_HEADER_2 == 1
VideoPacket_DATA_LEN_B3 == 2
VideoPacket_DATA_LEN_B2 == 3
VideoPacket_DATA_LEN_B1 == 4
VideoPacket_DATA_LEN_B0 == 5
VideoPacket_SEQ_B2 == 6
VideoPacket_SEQ_B1 == 7
VideoPacket_SEQ_B0 == 8
VideoPacket_CHUNK_LEN_B1 == 9
VideoPacket_CHUNK_LEN_B0 == 10
VideoPacket_PAYLOAD == 11

DEFAULT_RGB_COLOR == <<0, 255, 200>>

LCD_WIDTH == 480
LCD_HEIGHT == 480
DISPLAY_SIZE == <<LCD_WIDTH, LCD_HEIGHT>>
SCALING_MODES == {"stretch", "fit", "fill"}
DEFAULT_BG_MODE == "fill"

----------------------------------------------------------------------------
(* Python primitives used by the framer *)

Min(a, b) == IF a < b THEN a ELSE b

\* x >> n
Shr(x, n) == x \div (2 ^ n)

\* x & 0xFF
AndFF(x) == x % 256

\* bytearray(n): n zero bytes
bytearray(n) == [i \in 1..n |-> 0]

\* p[i] = v
SetItem(p, i, v) == [p EXCEPT ![i + 1] = v]

\* d[a:b], clamped to the length of d as Python slicing is
GetSlice(d, a, b) == SubSeq(d, a + 1, Min(b, Len(d)))

\* p[a:b] = c on a bytearray: the slice is replaced by c, whatever its length
SetSlice(p, a, b, c) ==
    SubSeq(p, 1, Min(a, Len(p))) \o c \o SubSeq(p, Min(b, Len(p)) + 1, Len(p))

----------------------------------------------------------------------------
(* usb_device.py: send_h264_frame *)

\* line 36: while offset < len(h264_data)
SendLoopCondEmpty(off, data) == off <= Len(data)
SendLoopCondShort(off, data) == off + USBProtocol_CHUNK_SIZE < Len(data)
SendLoopCond(off, data) == off < Len(data)

\* line 37
ChunkLenOver(off, data) == Min(USBProtocol_CHUNK_SIZE + 1, Len(data) - off)
ChunkLen(off, data) == Min(USBProtocol_CHUNK_SIZE, Len(data) - off)

\* line 38
ChunkOverlap(off, data) ==
    GetSlice(data, IF off > 0 THEN off - 1 ELSE 0,
             (IF off > 0 THEN off - 1 ELSE 0) + ChunkLen(off, data))
Chunk(off, data) == GetSlice(data, off, off + ChunkLen(off, data))

\* lines 40-52: the packet of the chunk at offset off, sequence number sq
VideoPacketChunkTotal(data, off, sq) ==
    LET chunk_len == ChunkLen(off, data)
        p0  == bytearray(USBProtocol_MAX_PACKET_SIZE)
        p1  == SetItem(p0, VideoPacket_HEADER_1, USBProtocol_HEADER_BYTE_1)
        p2  == SetItem(p1, VideoPacket_HEADER_2, USBProtocol_HEADER_BYTE_2)
        p3  == SetItem(p2, VideoPacket_DATA_LEN_B3, AndFF(Shr(chunk_len, 24)))
        p4  == SetItem(p3, VideoPacket_DATA_LEN_B2, AndFF(Shr(chunk_len, 16)))
        p5  == SetItem(p4, VideoPacket_DATA_LEN_B1, AndFF(Shr(chunk_len, 8)))
        p6  == SetItem(p5, VideoPacket_DATA_LEN_B0, AndFF(chunk_len))
        p7  == SetItem(p6, VideoPacket_SEQ_B2, AndFF(Shr(sq, 16)))
        p8  == SetItem(p7, VideoPacket_SEQ_B1, AndFF(Shr(sq, 8)))
        p9  == SetItem(p8, VideoPacket_SEQ_B0, AndFF(sq))
        p10 == SetItem(p9, VideoPacket_CHUNK_LEN_B1, AndFF(Shr(chunk_len, 8)))
        p11 == SetItem(p10, VideoPacket_CHUNK_LEN_B0, AndFF(chunk_len))
    IN  SetSlice(p11, VideoPacket_PAYLOAD, VideoPacket_PAYLOAD + chunk_len,
                 Chunk(off, data))
VideoPacket(data, off, sq) ==
    LET chunk_len == ChunkLen(off, data)
        p0  == bytearray(USBProtocol_MAX_PACKET_SIZE)
        p1  == SetItem(p0, VideoPacket_HEADER_1, USBProtocol_HEADER_BYTE_1)
        p2  == SetItem(p1, VideoPacket_HEADER_2, USBProtocol_HEADER_BYTE_2)
        p3  == SetItem(p2, VideoPacket_DATA_LEN_B3, AndFF(Shr(Len(data), 24)))
        p4  == SetItem(p3, VideoPacket_DATA_LEN_B2, AndFF(Shr(Len(data), 16)))
        p5  == SetItem(p4, VideoPacket_DATA_LEN_B1, AndFF(Shr(Len(data), 8)))
        p6  == SetItem(p5, VideoPacket_DATA_LEN_B0, AndFF(Len(data)))
        p7  == SetItem(p6, VideoPacket_SEQ_B2, AndFF(Shr(sq, 16)))
        p8  == SetItem(p7, VideoPacket_SEQ_B1, AndFF(Shr(sq, 8)))
        p9  == SetItem(p8, VideoPacket_SEQ_B0, AndFF(sq))
        p10 == SetItem(p9, VideoPacket_CHUNK_LEN_B1, AndFF(Shr(chunk_len, 8)))
        p11 == SetItem(p10, VideoPacket_CHUNK_LEN_B0, AndFF(chunk_len))
    IN  SetSlice(p11, VideoPacket_PAYLOAD, VideoPacket_PAYLOAD + chunk_len,
                 Chunk(off, data))

\* line 57: seq += 1
NextSeqStuck(sq) == sq
NextSeq(sq) == sq + 1

\* line 54: endpoint.write is not guarded, so an error it raises leaves
\* send_h264_frame at once
WriteRaisesSwallowed(ok) == FALSE
WriteRaises(ok) == ~ok

----------------------------------------------------------------------------
(* usb_device.py: set_rgb_color, lines 125-140 *)

RGBPacketShifted(rgb_color) ==
    LET p0 == bytearray(RGBPacket_SIZE)
        p1 == SetItem(p0, 0, RGBPacket_HEADER_BYTE)
        p2 == SetItem(p1, 1, RGBPacket_COLOR_CMD)
        p3 == SetItem(p2, RGBPacket_COLOR_OFFSET, RGBPacket_PAYLOAD_SIZE)
        p4 == SetItem(p3, 6, 0)
        p5 == SetItem(p4, 7, 3)
        p6 == SetItem(p5, 8, 4)
        p7 == SetItem(p6, 9, 0)
        p8 == SetItem(p7, 10, rgb_color[2])
        p9 == SetItem(p8, 11, rgb_color[3])
    IN  SetItem(p9, 12, rgb_color[1])
RGBPacket(rgb_color) ==
    LET p0 == bytearray(RGBPacket_SIZE)
        p1 == SetItem(p0, 0, RGBPacket_HEADER_BYTE)
        p2 == SetItem(p1, 1, RGBPacket_COLOR_CMD)
        p3 == SetItem(p2, RGBPacket_COLOR_OFFSET, RGBPacket_PAYLOAD_SIZE)
        p4 == SetItem(p3, 6, 0)
        p5 == SetItem(p4, 7, 3)
        p6 == SetItem(p5, 8, 4)
        p7 == SetItem(p6, 9, 0)
        p8 == SetItem(p7, 10, rgb_color[1])
        p9 == SetItem(p8, 11, rgb_color[2])
    IN  SetItem(p9, 12, rgb_color[3])

----------------------------------------------------------------------------
(* The inputs that are explored *)

\* an encoded payload of n bytes; the bytes differ from place to place
Payload(n) == [i \in 1..n |-> (7 * i + 1) % 256]

\* payload lengths given to send_h264_frame by a direct caller: empty, one
\* byte, and a whole number of chunks with and without one byte more
ApiLengths ==
    {0, 1, USBProtocol_CHUNK_SIZE, USBProtocol_CHUNK_SIZE + 1,
     MaxChunks * USBProtocol_CHUNK_SIZE, MaxChunks * USBProtocol_CHUNK_SIZE + 1}

\* lengths of the encoder's output in the main loop
EncoderLengths == {0, 1, MaxChunks * USBProtocol_CHUNK_SIZE + 1}

\* colours given to set_rgb_color
Colors == {DEFAULT_RGB_COLOR, <<255, 0, 128>>}

\* the parsed command line: a preset, or a frame composed with or without
\* the overlay, on a background image or on the themed default
ArgSets ==
    {[preset |-> "matrix", rgb |-> c, show_overlay |-> TRUE, bg |-> FALSE] :
        c \in Colors} \cup
    {[preset |-> "none", rgb |-> c, show_overlay |-> o, bg |-> b] :
        c \in Colors, o \in BOOLEAN, b \in BOOLEAN}

ApiArgs == [preset |-> "none", rgb |-> DEFAULT_RGB_COLOR, show_overlay |-> TRUE,
            bg |-> FALSE]

----------------------------------------------------------------------------
(* The endpoint: the log of the write calls made on it.  ok tells whether  *)
(* the call returned or raised; iter, total and color record the call the  *)
(* packet was built in.                                                    *)

VideoWrite(data, off, sq, it, ok) ==
    [kind |-> "video", iter |-> it, ok |-> ok, data |-> VideoPacket(data, off, sq),
     total |-> Len(data), color |-> <<>>]

RGBWrite(rgb_color, it, ok) ==
    [kind |-> "rgb", iter |-> it, ok |-> ok, data |-> RGBPacket(rgb_color),
     total |-> 0, color |-> rgb_color]

\* where an exception raised inside a call goes: to the direct caller, or to
\* the handlers of main's try block (glc.py lines 93-103)
RaiseTarget == IF ctx = "api" THEN "raised" ELSE "except_exc"

----------------------------------------------------------------------------
(* usb_device.py: send_h264_frame, one turn of the loop of lines 36-58 *)

SendStep ==
    /\ pc = "send"
    /\ SendLoopCond(offset, h264_data)
    /\ \E ok \in BOOLEAN :
        /\ writes' = Append(writes, VideoWrite(h264_data, offset, seq, iter, ok))
        /\ IF WriteRaises(ok)
           THEN /\ pc' = RaiseTarget
                /\ err' = "USBError"
                /\ UNCHANGED <<offset, seq>>
           ELSE /\ offset' = offset + ChunkLen(offset, h264_data)
                /\ seq' = NextSeq(seq)
                /\ UNCHANGED <<pc, err>>
    /\ UNCHANGED <<ctx, args, bg_image, h264_data, iter, cleanups>>
    /\ UNCHANGED <<composerVars, matrixVars, fnVars, heartVars, cleanupVars>>

\* the loop condition of line 36 fails: send_h264_frame returns
SendReturn ==
    /\ pc = "send"
    /\ ~SendLoopCond(offset, h264_data)
    /\ pc' = IF ctx = "api" THEN "send_returned" ELSE "sleep"
    /\ UNCHANGED <<ctx, args, bg_image, h264_data, offset, seq, writes, iter, err,
                   cleanups>>
    /\ UNCHANGED <<composerVars, matrixVars, fnVars, heartVars, cleanupVars>>

----------------------------------------------------------------------------
(* A direct caller of the API, as the tests are: any sequence of           *)
(* send_h264_frame and set_rgb_color calls on one endpoint.                *)

ApiIdle == ctx = "api" /\ pc \in {"idle", "send_returned", "rgb_returned", "raised"}

ApiCallSend ==
    /\ ApiIdle
    /\ iter < MaxCalls
    /\ \E n \in ApiLengths : h264_data' = Payload(n)
    /\ offset' = 0
    /\ seq' = 0
    /\ iter' = iter + 1
    /\ pc' = "send"
    /\ err' = "none"
    /\ UNCHANGED <<ctx, args, bg_image, writes, cleanups>>
    /\ UNCHANGED <<composerVars, matrixVars, fnVars, heartVars, cleanupVars>>

\* usb_device.py: set_rgb_color, lines 125-143
ApiCallSetRgb ==
    /\ ApiIdle
    /\ iter < MaxCalls
    /\ iter' = iter + 1
    /\ \E c \in Colors, ok \in BOOLEAN :
        /\ writes' = Append(writes, RGBWrite(c, iter + 1, ok))
        /\ pc' = IF ok THEN "rgb_returned" ELSE "raised"
        /\ err' = IF ok THEN "none" ELSE "USBError"
    /\ UNCHANGED <<ctx, args, bg_image, h264_data, offset, seq, cleanups>>
    /\ UNCHANGED <<composerVars, matrixVars, fnVars, heartVars, cleanupVars>>

----------------------------------------------------------------------------
(* glc.py: main *)

\* lines 34-42: the preset object is built (argparse admits no preset other
\* than "matrix")
PresetInit ==
    /\ ctx = "main" /\ pc = "preset_init"
    /\ pc' = "load_bg"
    /\ UNCHANGED <<ctx, args, bg_image, h264_data, offset, seq, writes, iter, err,
                   cleanups>>
    /\ UNCHANGED <<composerVars, matrixVars, fnVars, heartVars, cleanupVars>>

\* lines 44-50: load_background yields a raster or None
LoadBackground ==
    /\ ctx = "main" /\ pc = "load_bg"
    /\ IF args.bg /\ args.preset = "none"
       THEN \E r \in {"raster", "none"} : bg_image' = r
       ELSE bg_image' = "none"
    /\ pc' = "find_device"
    /\ UNCHANGED <<ctx, args, h264_data, offset, seq, writes, iter, err, cleanups>>
    /\ UNCHANGED <<composerVars, matrixVars, fnVars, heartVars, cleanupVars>>

\* lines 52-55
FindDevice ==
    /\ ctx = "main" /\ pc = "find_device"
    /\ \E found \in BOOLEAN : pc' = IF found THEN "setup_device" ELSE "done"
    /\ UNCHANGED <<ctx, args, bg_image, h264_data, offset, seq, writes, iter, err,
                   cleanups>>
    /\ UNCHANGED <<composerVars, matrixVars, fnVars, heartVars, cleanupVars>>

\* line 57: outside the try block, an error leaves main
SetupDevice ==
    /\ ctx = "main" /\ pc = "setup_device"
    /\ \E ok \in BOOLEAN :
        /\ pc' = IF ok THEN "get_endpoint" ELSE "raised"
        /\ err' = IF ok THEN err ELSE "USBError"
    /\ UNCHANGED <<ctx, args, bg_image, h264_data, offset, seq, writes, iter,
                   cleanups>>
    /\ UNCHANGED <<composerVars, matrixVars, fnVars, heartVars, cleanupVars>>

\* line 59
GetEndpoint ==
    /\ ctx = "main" /\ pc = "get_endpoint"
    /\ \E ok \in BOOLEAN :
        /\ pc' = IF ok THEN "set_rgb" ELSE "raised"
        /\ err' = IF ok THEN err ELSE "USBError"
    /\ UNCHANGED <<ctx, args, bg_image, h264_data, offset, seq, writes, iter,
                   cleanups>>
    /\ UNCHANGED <<composerVars, matrixVars, fnVars, heartVars, cleanupVars>>

\* lines 70-75
StartupColorConfigured(a) == a.rgb
StartupColor(a) == IF a.preset = "matrix" THEN <<0, 255, 0>> ELSE a.rgb

SetRgb ==
    /\ ctx = "main" /\ pc = "set_rgb"
    /\ \E ok \in BOOLEAN :
        /\ writes' = Append(writes, RGBWrite(StartupColor(args), iter, ok))
        /\ pc' = IF ok THEN "render" ELSE "raised"
        /\ err' = IF ok THEN err ELSE "USBError"
    /\ UNCHANGED <<ctx, args, bg_image, h264_data, offset, seq, iter, cleanups>>
    /\ UNCHANGED <<composerVars, matrixVars, fnVars, heartVars, cleanupVars>>

\* image_processor.py create_frame and _get_cpu_metrics: the metrics are read
\* only when the overlay is drawn; a failure of sensors_temperatures is
\* caught (lines 253-260), one of cpu_percent (line 264) is not.
\* presets.py MatrixPreset.render reads the temperature under a try.
RenderRaises(a, sensor) ==
    a.preset = "none" /\ a.show_overlay /\ sensor = "cpu_percent_raises"

\* lines 79-84
Render ==
    /\ ctx = "main" /\ pc = "render"
    /\ iter < MaxFrames
    /\ iter' = iter + 1
    /\ \E sensor \in {"ok", "temperatures_raises", "cpu_percent_raises"} :
        IF RenderRaises(args, sensor)
        THEN pc' = "except_exc" /\ err' = "SensorError"
        ELSE pc' = "encode" /\ err' = err
    /\ UNCHANGED <<ctx, args, bg_image, h264_data, offset, seq, writes, cleanups>>
    /\ UNCHANGED <<composerVars, matrixVars, fnVars, heartVars, cleanupVars>>

\* line 86: the encoder returns a payload, possibly empty, or raises
Encode ==
    /\ ctx = "main" /\ pc = "encode"
    /\ \/ /\ \E n \in EncoderLengths : h264_data' = Payload(n)
          /\ pc' = "check"
          /\ err' = err
       \/ /\ pc' = "except_exc"
          /\ err' = "EncodeError"
          /\ UNCHANGED h264_data
    /\ UNCHANGED <<ctx, args, bg_image, offset, seq, writes, iter, cleanups>>
    /\ UNCHANGED <<composerVars, matrixVars, fnVars, heartVars, cleanupVars>>

\* line 88: if h264_data
ShouldSend(data) == Len(data) > 0

\* lines 88-89, and lines 33-34 of send_h264_frame when it is called
Check ==
    /\ ctx = "main" /\ pc = "check"
    /\ IF ShouldSend(h264_data)
       THEN pc' = "send" /\ offset' = 0 /\ seq' = 0
       ELSE pc' = "sleep" /\ UNCHANGED <<offset, seq>>
    /\ UNCHANGED <<ctx, args, bg_image, h264_data, writes, iter, err, cleanups>>
    /\ UNCHANGED <<composerVars, matrixVars, fnVars, heartVars, cleanupVars>>

\* line 91, and back to line 78
Sleep ==
    /\ ctx = "main" /\ pc = "sleep"
    /\ pc' = "render"
    /\ UNCHANGED <<ctx, args, bg_image, h264_data, offset, seq, writes, iter, err,
                   cleanups>>
    /\ UNCHANGED <<composerVars, matrixVars, fnVars, heartVars, cleanupVars>>

\* the positions inside the try block of lines 77-91
TryPcs == {"render", "encode", "check", "send", "sleep"}

\* Ctrl-C: Python raises KeyboardInterrupt in the main thread wherever it is;
\* no signal is masked while a frame is sent
Interrupt ==
    /\ ctx = "main" /\ pc \in TryPcs
    /\ pc' = "except_kbd"
    /\ err' = "KeyboardInterrupt"
    /\ UNCHANGED <<ctx, args, bg_image, h264_data, offset, seq, writes, iter,
                   cleanups>>
    /\ UNCHANGED <<composerVars, matrixVars, fnVars, heartVars, cleanupVars>>

\* lines 93-97
ExceptKeyboardInterrupt ==
    /\ ctx = "main" /\ pc = "except_kbd"
    /\ cleanups' = cleanups + 1
    /\ pc' = "finally"
    /\ UNCHANGED <<ctx, args, bg_image, h264_data, offset, seq, writes, iter, err>>
    /\ UNCHANGED <<composerVars, matrixVars, fnVars, heartVars, cleanupVars>>

\* lines 99-103
ExceptException ==
    /\ ctx = "main" /\ pc = "except_exc"
    /\ cleanups' = cleanups + 1
    /\ pc' = "finally"
    /\ UNCHANGED <<ctx, args, bg_image, h264_data, offset, seq, writes, iter, err>>
    /\ UNCHANGED <<composerVars, matrixVars, fnVars, heartVars, cleanupVars>>

\* lines 105-111
Finally ==
    /\ ctx = "main" /\ pc = "finally"
    /\ cleanups' = cleanups + 1
    /\ pc' = "done"
    /\ UNCHANGED <<ctx, args, bg_image, h264_data, offset, seq, writes, iter, err>>
    /\ UNCHANGED <<composerVars, matrixVars, fnVars, heartVars, cleanupVars>>

----------------------------------------------------------------------------

\* the state of the parts a specification leaves out
UsbOff ==
    /\ ctx = "off" /\ pc = "off" /\ args = ApiArgs /\ bg_image = "none"
    /\ h264_data = <<>> /\ offset = 0 /\ seq = 0 /\ writes = <<>>
    /\ iter = 0 /\ err = "none" /\ cleanups = 0

NoFrameArgs ==
    [preset |-> "none", bg |-> "", bg_mode |-> DEFAULT_BG_MODE,
     show_overlay |-> TRUE]

NoCall ==
    [n |-> 0, path |-> "", mode |-> "", file |-> "none", ret |-> 0,
     pre_cache |-> 0, pre_key |-> "", pre_opens |-> 0, pre_last_ok |-> <<>>]

\* image_processor.py lines 36-39: the module as imported, nothing cached
\* and no reading taken
ComposerLoaded ==
    /\ fiter = 0 /\ heap = <<>> /\ bg_image_cache = 0
    /\ bg_image_cache_key = "" /\ last_cpu_percent = <<0, 1>> /\ bg_obj = 0
    /\ img = 0 /\ handed = 0 /\ call = NoCall /\ opens = 0
    /\ last_ok = <<>> /\ samples = <<>>

ComposerOff ==
    /\ fctx = "off" /\ fpc = "off" /\ fargs = NoFrameArgs /\ ComposerLoaded

MatrixOff == mctx = "off" /\ columns = <<>> /\ frame_count = 0

FnOff == fn_in = <<>> /\ fn_out = <<>>

HeartOff ==
    /\ hctx = "off" /\ hb_frame_count = 0 /\ cpu_history = <<>>
    /\ hb_current_cpu = <<0, 1>> /\ hb_log = <<>> /\ fc_match_runs = <<>>

CleanupOff ==
    /\ cctx = "off" /\ cpc = "off" /\ device = "none" /\ dev_log = <<>>
    /\ ccalls = 0


InitMain ==
    /\ ComposerOff /\ MatrixOff /\ FnOff /\ HeartOff /\ CleanupOff
    /\ ctx = "main"
    /\ pc = "preset_init"
    /\ args \in ArgSets
    /\ bg_image = "none"
    /\ h264_data = <<>>
    /\ offset = 0
    /\ seq = 0
    /\ writes = <<>>
    /\ iter = 0
    /\ err = "none"
    /\ cleanups = 0

InitApi ==
    /\ ComposerOff /\ MatrixOff /\ FnOff /\ HeartOff /\ CleanupOff
    /\ ctx = "api"
    /\ pc = "idle"
    /\ args = ApiArgs
    /\ bg_image = "none"
    /\ h264_data = <<>>
    /\ offset = 0
    /\ seq = 0
    /\ writes = <<>>
    /\ iter = 0
    /\ err = "none"
    /\ cleanups = 0

Init == InitMain \/ InitApi

Next ==
    \/ SendStep
    \/ SendReturn
    \/ ApiCallSend
    \/ ApiCallSetRgb
    \/ PresetInit
    \/ LoadBackground
    \/ FindDevice
    \/ SetupDevice
    \/ GetEndpoint
    \/ SetRgb
    \/ Render
    \/ Encode
    \/ Check
    \/ Sleep
    \/ Interrupt
    \/ ExceptKeyboardInterrupt
    \/ ExceptException
    \/ Finally

Spec == Init /\ [][Next]_vars

----------------------------------------------------------------------------
(* Reading the log: what the device sees *)

\* the fields of a video packet (spec section 6), read back big-endian
TotalField(p) == p[3] * 16777216 + p[4] * 65536 + p[5] * 256 + p[6]
SeqField(p) == p[7] * 65536 + p[8] * 256 + p[9]
ChunkLenField(p) == p[10] * 256 + p[11]

\* the bytes a packet carries: offsets 11 .. 11+L-1
Carried(p) == SubSeq(p, 12, 11 + ChunkLenField(p))

Zeros(n) == [i \in 1..n |-> 0]

CeilDiv(n, d) == (n + d - 1) \div d

\* the video write calls of call (or loop iteration) it, in write order
CallPackets(it) == SelectSeq(writes, LAMBDA e : e.kind = "video" /\ e.iter = it)

RECURSIVE Reassemble(_)
Reassemble(ps) ==
    IF ps = <<>> THEN <<>> ELSE Carried(Head(ps).data) \o Reassemble(Tail(ps))

\* the number of video write calls of the same call made before write i
VideoBefore(i) ==
    Cardinality({j \in 1..(i - 1) :
        writes[j].kind = "video" /\ writes[j].iter = writes[i].iter})

\* send_h264_frame has returned normally from the call of this iteration
\* (in main an empty payload skips the call and reaches the same place)
SendReturned == pc \in {"send_returned", "sleep"}

----------------------------------------------------------------------------
(* Claims *)

\* C1: when send_h264_frame returns from a payload of N bytes it has made
\* exactly ceil(N/1013) writes (none for N = 0); the chunk-length field of
\* every packet but the last is 1013 and that of the last is
\* N - 1013*(count-1), so every chunk length L has 0 < L <= 1013.
C1_PacketCount ==
    SendReturned =>
        LET N == Len(h264_data)
            ps == CallPackets(iter)
            count == CeilDiv(N, 1013)
        IN  /\ Len(ps) = count
            /\ \A k \in 1..Len(ps) :
                /\ ChunkLenField(ps[k].data) =
                       IF k < count THEN 1013 ELSE N - 1013 * (count - 1)
                /\ ChunkLenField(ps[k].data) > 0
                /\ ChunkLenField(ps[k].data) <= 1013

\* a call with a payload of two full chunks and one byte has returned
C1_Witness ==
    /\ ctx = "api" /\ pc = "send_returned"
    /\ Len(h264_data) = 2027
    /\ Len(CallPackets(iter)) = 3

\* C2: when send_h264_frame returns, the bytes at offsets 11..11+L-1 of its
\* packets, concatenated in write order, are exactly the payload.
C2_Reassembly ==
    SendReturned => Reassemble(CallPackets(iter)) = h264_data

\* a payload spread over three packets has been sent after earlier traffic
C2_Witness ==
    /\ ctx = "api" /\ pc = "send_returned"
    /\ Len(CallPackets(iter)) = 3
    /\ Len(writes) > 3

\* C3: the k-th write of a call (k from 0) carries sequence number k in
\* bytes 6-8: numbers start at 0 in every frame and rise by one per packet,
\* in write order.
C3_SequenceNumbers ==
    \A i \in 1..Len(writes) :
        writes[i].kind = "video" => SeqField(writes[i].data) = VideoBefore(i)

\* the second frame of a run has reached its third packet
C3_Witness ==
    /\ iter = 2
    /\ Len(CallPackets(1)) > 1
    /\ Len(CallPackets(2)) = 3
    /\ SeqField(writes[Len(writes)].data) = 2

\* C4: every video packet is 1024 bytes long, starts 0x02 0x0D, carries the
\* total payload length N in bytes 2-5 and is zero after its chunk payload.
C4_PacketLayout ==
    \A i \in 1..Len(writes) :
        writes[i].kind = "video" =>
            LET p == writes[i].data
                L == ChunkLenField(p)
            IN  /\ Len(p) = 1024
                /\ p[1] = 2
                /\ p[2] = 13
                /\ TotalField(p) = writes[i].total
                /\ SubSeq(p, 12 + L, 1024) = Zeros(1013 - L)

\* the short last packet of a payload of several chunks has been written
C4_Witness ==
    /\ Len(writes) > 1
    /\ writes[Len(writes)].kind = "video"
    /\ writes[Len(writes)].total = 1014
    /\ ChunkLenField(writes[Len(writes)].data) = 1

\* C5: set_rgb_color makes exactly one write, of the 64-byte packet
\* 01 83 00 00 00 13 00 03 04 00 r g b 00.., whatever was written before.
C5_ColorPacket ==
    /\ \A i \in 1..Len(writes) :
        writes[i].kind = "rgb" =>
            writes[i].data =
                <<1, 131, 0, 0, 0, 19, 0, 3, 4, 0>> \o writes[i].color \o Zeros(51)
    /\ pc = "rgb_returned" =>
        /\ Cardinality({i \in 1..Len(writes) : writes[i].iter = iter}) = 1
        /\ writes[Len(writes)].kind = "rgb"
        /\ writes[Len(writes)].iter = iter

\* a colour is set after a video frame was sent on the same endpoint
C5_Witness ==
    /\ pc = "rgb_returned"
    /\ Len(writes) > 1
    /\ writes[1].kind = "video"
    /\ writes[Len(writes)].color = <<255, 0, 128>>

\* C6: a zero-length payload is never transmitted: no packet of a payload
\* of length 0 is ever written, send_h264_frame given an empty payload
\* returns without a write, and a loop iteration whose encoder output is
\* empty reaches the sleep without entering send_h264_frame.
C6_NoEmptyPayload ==
    /\ \A i \in 1..Len(writes) :
        writes[i].kind = "video" =>
            writes[i].total > 0 /\ ChunkLenField(writes[i].data) > 0
    /\ (SendReturned /\ h264_data = <<>>) => CallPackets(iter) = <<>>
    /\ (ctx = "main" /\ pc = "send") => h264_data # <<>>

\* the second loop iteration got an empty encoder output and sleeps
C6_Witness ==
    /\ ctx = "main" /\ pc = "sleep"
    /\ iter = 2
    /\ h264_data = <<>>
    /\ CallPackets(1) # <<>>

\* every packet of frame f has been written: ceil(N_f/1013) successful
\* writes
FrameComplete(f) ==
    LET ps == CallPackets(f)
    IN  /\ ps # <<>>
        /\ Len(ps) = CeilDiv(ps[1].total, 1013)
        /\ \A k \in 1..Len(ps) : ps[k].ok

\* the packets of the frames lie in the log frame after frame, and a frame
\* is complete before the first packet of a later one is written
C7_LogInOrder ==
    \A i, j \in 1..Len(writes) :
        (ctx = "main" /\ i < j /\ writes[i].kind = "video" /\ writes[j].kind = "video") =>
            /\ writes[i].iter <= writes[j].iter
            /\ writes[i].iter < writes[j].iter => FrameComplete(writes[i].iter)

\* one iteration runs render, encode, transmit, sleep in that order, and
\* the endpoint is written during the transmit stage only
C7_StageOrder ==
    (ctx = "main" /\ pc \in TryPcs /\ pc' \in TryPcs) =>
        /\ pc = "render" => pc' = "encode" /\ iter' = iter + 1
        /\ pc = "encode" => pc' = "check"
        /\ pc = "check" => pc' \in {"send", "sleep"}
        /\ pc = "send" => pc' \in {"send", "sleep"}
        /\ pc = "sleep" => pc' = "render"
        /\ pc # "render" => iter' = iter
        /\ pc # "send" => writes' = writes

\* C7: in the main loop at most one frame is in transmission at a time:
\* each iteration runs render, encode, transmit, sleep in that order, and
\* the first packet of frame n+1 is written only after all ceil(N_n/1013)
\* packets of frame n; packets of two frames are never interleaved.
C7_OneFrameInFlight == []C7_LogInOrder /\ [][C7_StageOrder]_vars

\* the second frame is being sent after a first frame of three packets
C7_Witness ==
    /\ ctx = "main" /\ pc = "send"
    /\ Len(CallPackets(1)) = 3
    /\ Len(CallPackets(2)) = 2

\* C8 (as claimed): a user interrupt takes effect only between iterations:
\* when the loop reacts to it, every frame whose first packet was written
\* has had all its packets written, or its transmission failed.
C8_InterruptBetweenFrames ==
    err = "KeyboardInterrupt" =>
        \A f \in 1..iter :
            CallPackets(f) # <<>> =>
                \/ FrameComplete(f)
                \/ \E k \in 1..Len(CallPackets(f)) : ~CallPackets(f)[k].ok

\* C9 (as claimed): a transient failure inside a loop iteration (a failed
\* USB write, a failed sensor read) does not end the main loop: the loop
\* stays inside its try block and goes on to the next iteration.
C9_TransientFailureKeepsLoop ==
    (ctx = "main" /\ iter >= 1 /\ err \in {"USBError", "SensorError"}) =>
        pc \in TryPcs

\* C10: a failed write is not ignored by send_h264_frame: the error reaches
\* the caller, the packet is not written again and no later packet of that
\* payload is written.
C10_FailedWritePropagates ==
    \A i \in 1..Len(writes) :
        (writes[i].kind = "video" /\ ~writes[i].ok) =>
            /\ \A j \in 1..Len(writes) :
                (j > i /\ writes[j].kind = "video") => writes[j].iter # writes[i].iter
            /\ writes[i].iter = iter =>
                /\ err = "USBError"
                /\ pc \in {"raised", "except_exc", "finally", "done"}

\* the write of the second packet of a payload has failed
C10_Witness ==
    /\ ctx = "api" /\ pc = "raised"
    /\ Len(CallPackets(iter)) = 2
    /\ ~writes[Len(writes)].ok
    /\ SeqField(writes[Len(writes)].data) = 1
    /\ Len(h264_data) = 2027

----------------------------------------------------------------------------
(* presets.py: MatrixPreset.  A column's y and speed are floats; the model *)
(* keeps them in quarters of a pixel, which the floats of the code hold    *)
(* exactly: y = -200 is -800, speed = 1.5 is 6, speed = 3.0 is 12.         *)

Quarter == 4

\* line 62
col_count == LCD_WIDTH \div 10

\* line 61, two glyphs of the pool
char_pool == {"a", "7"}

\* lines 71 and 187, random.uniform(1.5, 3.0): a + (b-a)*random() with
\* random() in [0, 1) is rounded to the nearest float, which for the
\* largest values of random() is b itself, so both ends can be returned
UniformSpeeds == {6, 9, 11, 12}

\* line 184
ResetCondAtEdge(y) == y >= (LCD_HEIGHT + 100) * Quarter
ResetCond(y) == y > (LCD_HEIGHT + 100) * Quarter

\* line 181
Advanced(col) == col.y + col.speed

\* a reset that replaces the column's mapping by a newly built one
ResetColumnAnew(col, ch, sp) ==
    [y |-> (-200) * Quarter, char |-> ch, speed |-> sp, brightness |-> 255,
     trail_length |-> 15]

\* lines 185-187
ResetColumn(col, ch, sp) ==
    [col EXCEPT !.y = (-200) * Quarter, !.char = ch, !.speed = sp]

\* lines 177-187 and 246: every column is advanced, the columns that fell
\* off the screen are reset with a fresh glyph and speed
MatrixRenderStep ==
    LET falling == {c \in DOMAIN columns : ResetCond(Advanced(columns[c]))}
    IN  /\ \E draw \in [falling -> char_pool \X UniformSpeeds] :
            columns' = [c \in DOMAIN columns |->
                IF c \in falling
                THEN ResetColumn(columns[c], draw[c][1], draw[c][2])
                ELSE [columns[c] EXCEPT !.y = Advanced(columns[c])]]
        /\ frame_count' = frame_count + 1

\* lines 66-74: the columns after construction.  y is an integer of
\* -200..0, the speed a float of 1.5..3.0, the trail an integer of 5..15.
\* Column 0 leaves the screen first, column 1 comes to rest on y = 580
\* before it leaves, the others stay on the screen.
MatrixInits ==
    {[c \in 0..(col_count - 1) |->
        [y |-> IF c = 0 THEN y0 * Quarter
               ELSE IF c = 1 THEN (-3) * Quarter ELSE (-200) * Quarter,
         char |-> "a",
         speed |-> IF c \in {0, 1} THEN 11 ELSE 6,
         brightness |-> 255,
         trail_length |-> 5 + (c % 11)]] : y0 \in {0, -1}}

\* a direct user of the preset calls render
MatrixRender ==
    /\ mctx = "matrix"
    /\ frame_count < MaxRenders
    /\ MatrixRenderStep
    /\ UNCHANGED <<mctx, usbVars, composerVars, fnVars, heartVars, cleanupVars>>

----------------------------------------------------------------------------
(* image_processor.py: the rasters.  A raster is a record of its size and  *)
(* mode and of how its pixels were made: the decoded file (src), the       *)
(* operation that produced it (op), the size the source content has in it  *)
(* (scaled), the offset of a paste or of a crop (at), and whether text was *)
(* drawn on it.  The rasters live on a heap; a reference is an index of    *)
(* the heap and 0 is None.                                                 *)

Abs(x) == IF x < 0 THEN -x ELSE x

\* comparison of two fractions <<numerator, denominator>>, denominators > 0
FracLe(p, q) == p[1] * q[2] <= q[1] * p[2]

Floor(num, den) == num \div den
Ceil(num, den) == IF num % den = 0 THEN num \div den ELSE (num \div den) + 1

\* Pillow, Image.thumbnail: round_aspect(number, key) is
\* max(min(floor(number), ceil(number), key=key), 1), number being num/den
\* and kfl, kce the keys of its floor and of its ceiling.  The keys are
\* floats: where the exact keys are equal the rounding of the floats
\* decides, and either neighbour can be the result.
RoundAspect(num, den, kfl, kce) ==
    LET nearest == (IF FracLe(kfl, kce) THEN {Floor(num, den)} ELSE {}) \cup
                   (IF FracLe(kce, kfl) THEN {Ceil(num, den)} ELSE {})
    IN  {IF m > 1 THEN m ELSE 1 : m \in nearest}

\* a thumbnail that takes the size of the box
ThumbnailsToBox(size, box) == {box}

\* Pillow, Image.thumbnail(size): the sizes the image can be reduced to.  An
\* image that fits is left alone; otherwise the aspect ratio w/h is kept
\* and the side that is computed is rounded to the neighbour whose ratio is
\* nearest to w/h.
Thumbnails(size, box) ==
    LET w == size[1]
        h == size[2]
        x == box[1]
        y == box[2]
        KeyX(n) == <<Abs(w * y - n * h), h * y>>
        KeyY(n) == IF n = 0 THEN <<0, 1>> ELSE <<Abs(w * n - x * h), h * n>>
    IN  IF x >= w /\ y >= h
        THEN {size}
        ELSE IF x * h >= y * w
             THEN {<<rx, y>> : rx \in
                      RoundAspect(y * w, h, KeyX(Floor(y * w, h)),
                                  KeyX(Ceil(y * w, h)))}
             ELSE {<<x, ry>> : ry \in
                      RoundAspect(x * h, w, KeyY(Floor(x * h, w)),
                                  KeyY(Ceil(x * h, w)))}

\* line 121: img.convert("RGB")
ConvertRGB(mode) == "RGB"

\* line 132: the canvas of the fit mode
FitCanvasTight(t) == t
FitCanvas(t) == DISPLAY_SIZE

\* line 141: after the thumbnail pass of the fill mode
FillTooSmall(t) == t[1] < LCD_WIDTH \/ t[2] < LCD_HEIGHT

\* lines 119-150: the raster load_background makes of a decoded file
\* [state, mode, w, h], t being the size Image.thumbnail gives; a mode that
\* is none of the three leaves the size alone
LoadedRaster(mode, file, t) ==
    LET size == <<file.w, file.h>>
        base == [w |-> file.w, h |-> file.h, mode |-> ConvertRGB(file.mode),
                 src |-> file, op |-> "none", scaled |-> size, at |-> <<0, 0>>,
                 text |-> FALSE]
    IN  CASE mode = "stretch" ->
               [base EXCEPT !.w = LCD_WIDTH, !.h = LCD_HEIGHT, !.op = "stretch",
                            !.scaled = DISPLAY_SIZE]
          [] mode = "fit" ->
               [base EXCEPT !.w = FitCanvas(t)[1], !.h = FitCanvas(t)[2],
                            !.op = "paste", !.scaled = t,
                            !.at = <<(LCD_WIDTH - t[1]) \div 2,
                                     (LCD_HEIGHT - t[2]) \div 2>>]
          [] mode = "fill" ->
               IF FillTooSmall(t)
               THEN [base EXCEPT !.w = LCD_WIDTH, !.h = LCD_HEIGHT,
                                 !.op = "stretch", !.scaled = DISPLAY_SIZE]
               ELSE LET left == (t[1] - LCD_WIDTH) \div 2
                        top  == (t[2] - LCD_HEIGHT) \div 2
                    IN  [base EXCEPT !.w = (left + LCD_WIDTH) - left,
                                     !.h = (top + LCD_HEIGHT) - top,
                                     !.op = "crop", !.scaled = t,
                                     !.at = <<left, top>>]
          [] OTHER -> base

\* lines 297-299: the themed default
DefaultRaster ==
    [w |-> LCD_WIDTH, h |-> LCD_HEIGHT, mode |-> "RGB",
     src |-> [state |-> "none", mode |-> "RGB", w |-> 0, h |-> 0],
     op |-> "default",
     scaled |-> DISPLAY_SIZE, at |-> <<0, 0>>, text |-> FALSE]

\* presets.py lines 173 and 235: the frame of the matrix preset
MatrixRaster == [DefaultRaster EXCEPT !.op = "matrix", !.text = TRUE]

\* line 113
CacheKeyPathOnly(image_path, mode) == image_path
CacheKey(image_path, mode) == image_path \o ":" \o mode

----------------------------------------------------------------------------
(* image_processor.py: load_background, create_frame, _get_cpu_metrics *)

\* what Image.open finds at a path: no readable image, an image whose
\* header opens and whose data does not decode, or an image
BgFiles ==
    {[state |-> "missing", mode |-> "RGB", w |-> 0, h |-> 0],
     [state |-> "truncated", mode |-> "RGB", w |-> 1000, h |-> 800],
     [state |-> "ok", mode |-> "RGBA", w |-> 1000, h |-> 800]}

\* the second path ends like a cache key of the first
BgPaths == {"bg.png", "bg.png:fit"}

\* lines 119-121: Image.open and the conversion, which reads the data,
\* both succeed
DecodesHeaderOnly(file) == file.state # "missing"
Decodes(file) == file.state = "ok"

\* lines 100-159, load_background(image_path, mode) with file at the path:
\* a cache hit returns the cached raster; otherwise the file is opened,
\* converted and rescaled, and cached only when all of it succeeded.  call
\* records the arguments, the result and the cache before the call; opens
\* counts the calls of Image.open; last_ok is the (path, mode) of the last
\* call that decoded its file.
LoadBackgroundCall(image_path, mode, file) ==
    LET cache_key == CacheKey(image_path, mode)
        rec == [n |-> call.n + 1, path |-> image_path, mode |-> mode,
                file |-> file.state, ret |-> 0,
                pre_cache |-> bg_image_cache, pre_key |-> bg_image_cache_key,
                pre_opens |-> opens, pre_last_ok |-> last_ok]
    IN  IF bg_image_cache_key = cache_key /\ bg_image_cache # 0
        THEN /\ call' = [rec EXCEPT !.ret = bg_image_cache]
             /\ UNCHANGED <<heap, bg_image_cache, bg_image_cache_key, opens,
                            last_ok>>
        ELSE IF Decodes(file)
        THEN /\ \E t \in Thumbnails(<<file.w, file.h>>, DISPLAY_SIZE) :
                    heap' = Append(heap, LoadedRaster(mode, file, t))
             /\ bg_image_cache' = Len(heap) + 1
             /\ bg_image_cache_key' = cache_key
             /\ opens' = opens + 1
             /\ last_ok' = <<image_path, mode>>
             /\ call' = [rec EXCEPT !.ret = Len(heap) + 1]
        ELSE /\ opens' = opens + 1
             /\ call' = rec
             /\ UNCHANGED <<heap, bg_image_cache, bg_image_cache_key, last_ok>>

\* psutil.cpu_percent(interval=None) in percent; -1 stands for a raise
CpuReadings == {0, 50}

\* lines 266-270, on fractions <<numerator, denominator>>
Smoothed(last, current_cpu) ==
    IF last[1] = 0
    THEN <<current_cpu, 1>>
    ELSE <<7 * last[1] + 3 * current_cpu * last[2], 10 * last[2]>>

\* lines 288-294: the background itself is returned
ReturnsBackgroundNever(bg, show_overlay) == FALSE
ReturnsBackground(bg, show_overlay) == bg # 0 /\ ~show_overlay

\* lines 276-353, create_frame(bg, show_overlay) with the reading of
\* cpu_percent: the result is left in img; text is drawn on a fresh raster
CreateFrameCall(bg, show_overlay, reading) ==
    LET base == IF bg # 0 THEN heap[bg] ELSE DefaultRaster
    IN  IF ReturnsBackground(bg, show_overlay)
        THEN /\ img' = bg
             /\ UNCHANGED <<heap, last_cpu_percent, samples>>
        ELSE IF ~show_overlay
        THEN /\ heap' = Append(heap, base)
             /\ img' = Len(heap) + 1
             /\ UNCHANGED <<last_cpu_percent, samples>>
        ELSE /\ reading >= 0
             /\ heap' = Append(heap, [base EXCEPT !.mode = ConvertRGB(base.mode),
                                                  !.text = TRUE])
             /\ img' = Len(heap) + 1
             /\ last_cpu_percent' = Smoothed(last_cpu_percent, reading)
             /\ samples' = Append(samples, reading)

\* line 264 raises: create_frame raises with it
CreateFrameRaises(bg, show_overlay, reading) ==
    ~ReturnsBackground(bg, show_overlay) /\ show_overlay /\ reading < 0

----------------------------------------------------------------------------
(* The frame pipeline: the calls main makes on the composer (glc.py lines  *)
(* 34-50 and 79-86), and a direct user of load_background and create_frame *)

\* cli.py lines 189-203: a value of the config file replaces an argument
\* left at its default; "" is an absent value
ApplyConfig(current_val, config_val, default_value) ==
    IF config_val # "" /\ current_val = default_value
    THEN config_val
    ELSE current_val

\* --bg-mode is one of SCALING_MODES (cli.py, choices); bg_mode of the
\* config file is any string
ConfigBgModes == {"", "fit", "zoom"}

FrameArgSets ==
    {[preset |-> p,
      bg |-> ApplyConfig(cli_bg, config_bg, ""),
      bg_mode |-> ApplyConfig(cli_mode, config_mode, DEFAULT_BG_MODE),
      show_overlay |-> o] :
        p \in {"none", "matrix"}, cli_bg \in {"", "bg.png"},
        config_bg \in {"", "bg.png"}, cli_mode \in SCALING_MODES,
        config_mode \in ConfigBgModes, o \in BOOLEAN}

\* glc.py lines 44-50
FrameLoadBackground ==
    /\ fctx = "main" /\ fpc = "load_bg"
    /\ IF fargs.bg # "" /\ fargs.preset = "none"
       THEN \E file \in BgFiles :
                /\ LoadBackgroundCall(fargs.bg, fargs.bg_mode, file)
                /\ bg_obj' = call'.ret
       ELSE UNCHANGED <<heap, bg_image_cache, bg_image_cache_key, opens,
                        last_ok, call, bg_obj>>
    /\ fpc' = "render"
    /\ UNCHANGED <<fctx, fargs, fiter, last_cpu_percent, img, handed, samples>>
    /\ UNCHANGED <<usbVars, matrixVars, fnVars, heartVars, cleanupVars>>

\* glc.py lines 79-84
FrameRender ==
    /\ fctx = "main" /\ fpc = "render"
    /\ fiter < MaxFrames
    /\ fiter' = fiter + 1
    /\ IF fargs.preset = "matrix"
       THEN /\ MatrixRenderStep
            /\ heap' = Append(heap, MatrixRaster)
            /\ img' = Len(heap) + 1
            /\ fpc' = "encode"
            /\ UNCHANGED <<last_cpu_percent, samples, mctx>>
       ELSE /\ \E reading \in CpuReadings \cup {-1} :
                IF CreateFrameRaises(bg_obj, fargs.show_overlay, reading)
                THEN /\ fpc' = "raised"
                     /\ UNCHANGED <<heap, img, last_cpu_percent, samples>>
                ELSE /\ CreateFrameCall(bg_obj, fargs.show_overlay, reading)
                     /\ fpc' = "encode"
            /\ UNCHANGED matrixVars
    /\ UNCHANGED <<fctx, fargs, bg_image_cache, bg_image_cache_key, bg_obj,
                   handed, call, opens, last_ok>>
    /\ UNCHANGED <<usbVars, fnVars, heartVars, cleanupVars>>

\* glc.py line 86: the raster goes to encode_h264
FrameEncode ==
    /\ fctx = "main" /\ fpc = "encode"
    /\ handed' = img
    /\ fpc' = "render"
    /\ UNCHANGED <<fctx, fargs, fiter, heap, bg_image_cache, bg_image_cache_key,
                   last_cpu_percent, bg_obj, img, call, opens, last_ok, samples>>
    /\ UNCHANGED <<usbVars, matrixVars, fnVars, heartVars, cleanupVars>>

\* a direct user calls load_background and keeps the result
ApiLoadBackground ==
    /\ fctx = "api" /\ fpc = "idle"
    /\ fiter < MaxBgCalls
    /\ fiter' = fiter + 1
    /\ \E image_path \in BgPaths, mode \in SCALING_MODES, file \in BgFiles :
        /\ LoadBackgroundCall(image_path, mode, file)
        /\ bg_obj' = call'.ret
    /\ UNCHANGED <<fctx, fpc, fargs, last_cpu_percent, img, handed, samples>>
    /\ UNCHANGED <<usbVars, matrixVars, fnVars, heartVars, cleanupVars>>

\* a direct user calls create_frame on the raster it holds, or on None
ApiCreateFrame ==
    /\ fctx = "api" /\ fpc = "idle"
    /\ fiter < MaxBgCalls
    /\ fiter' = fiter + 1
    /\ \E bg \in {0, bg_obj}, show_overlay \in BOOLEAN,
          reading \in CpuReadings \cup {-1} :
        IF CreateFrameRaises(bg, show_overlay, reading)
        THEN /\ fpc' = "raised"
             /\ UNCHANGED <<heap, img, last_cpu_percent, samples>>
        ELSE /\ CreateFrameCall(bg, show_overlay, reading)
             /\ fpc' = fpc
    /\ UNCHANGED <<fctx, fargs, bg_image_cache, bg_image_cache_key, bg_obj,
                   handed, call, opens, last_ok>>
    /\ UNCHANGED <<usbVars, matrixVars, fnVars, heartVars, cleanupVars>>

InitFrameMain ==
    /\ UsbOff /\ FnOff /\ HeartOff /\ CleanupOff
    /\ fctx = "main" /\ fpc = "load_bg"
    /\ fargs \in FrameArgSets
    /\ ComposerLoaded
    /\ IF fargs.preset = "matrix"
       THEN mctx = "main" /\ columns \in MatrixInits /\ frame_count = 0
       ELSE MatrixOff

InitFrameApi ==
    /\ UsbOff /\ MatrixOff /\ FnOff /\ HeartOff /\ CleanupOff
    /\ fctx = "api" /\ fpc = "idle"
    /\ fargs = NoFrameArgs
    /\ ComposerLoaded

InitFrame == InitFrameMain \/ InitFrameApi

NextFrame ==
    \/ FrameLoadBackground
    \/ FrameRender
    \/ FrameEncode
    \/ ApiLoadBackground
    \/ ApiCreateFrame

SpecFrame == InitFrame /\ [][NextFrame]_vars

----------------------------------------------------------------------------
(* load_background as a function of the source image: one call on a module *)
(* that has nothing cached, for every mode and a range of source sizes     *)

SourceDims == {1, 100, 479, 480, 481, 958, 960, 999, 1000, 2000}

ScaleInputs ==
    {[path |-> "bg.png", mode |-> m,
      file |-> [state |-> "ok", mode |-> fm, w |-> w, h |-> h]] :
        m \in SCALING_MODES, fm \in {"RGB", "RGBA"},
        w \in SourceDims, h \in SourceDims}

ScaleLoad ==
    /\ fctx = "scale" /\ fpc = "call"
    /\ LoadBackgroundCall(fn_in.path, fn_in.mode, fn_in.file)
    /\ bg_obj' = call'.ret
    /\ fn_out' = <<call'.ret>>
    /\ fpc' = "returned"
    /\ UNCHANGED <<fctx, fargs, fiter, last_cpu_percent, img, handed, samples,
                   fn_in>>
    /\ UNCHANGED <<usbVars, matrixVars, heartVars, cleanupVars>>

InitScale ==
    /\ UsbOff /\ MatrixOff /\ HeartOff /\ CleanupOff
    /\ fctx = "scale" /\ fpc = "call" /\ fargs = NoFrameArgs
    /\ ComposerLoaded
    /\ fn_in \in ScaleInputs
    /\ fn_out = <<>>

NextScale == ScaleLoad

SpecScale == InitScale /\ [][NextScale]_vars

----------------------------------------------------------------------------
(* MatrixPreset used directly: construction, then calls of render *)

InitMatrix ==
    /\ UsbOff /\ ComposerOff /\ FnOff /\ HeartOff /\ CleanupOff
    /\ mctx = "matrix"
    /\ columns \in MatrixInits
    /\ frame_count = 0

NextMatrix == MatrixRender

SpecMatrix == InitMatrix /\ [][NextMatrix]_vars

----------------------------------------------------------------------------
(* The colour command in a run of main *)

RGBEntries == {i \in 1..Len(writes) : writes[i].kind = "rgb"}

\* C11: in a run of main the colour command is written once, before every
\* video packet and never again: the log holds at most one colour packet,
\* once main is inside its loop (or past it) the log starts with the one
\* colour packet, written successfully, and every video packet comes after
\* it; its colour is (0,255,0) under the matrix preset and the configured
\* rgb value otherwise.
C11_ColorOnceAtStartup ==
    ctx = "main" =>
        /\ Cardinality(RGBEntries) <= 1
        /\ \A i \in RGBEntries :
            writes[i].color =
                IF args.preset = "matrix" THEN <<0, 255, 0>> ELSE args.rgb
        /\ (pc \in TryPcs \cup {"except_kbd", "except_exc", "finally"}
                \/ \E i \in 1..Len(writes) : writes[i].kind = "video") =>
            /\ RGBEntries = {1}
            /\ writes[1].ok

\* two frames were streamed under the matrix preset with another colour
\* configured
C11_Witness ==
    /\ ctx = "main" /\ pc = "sleep" /\ iter = 2
    /\ args.preset = "matrix" /\ args.rgb = <<255, 0, 128>>
    /\ Cardinality({i \in 1..Len(writes) : writes[i].kind = "video"}) >= 2
    /\ writes[1].color = <<0, 255, 0>>

----------------------------------------------------------------------------
(* The raster given to the encoder *)

\* C12 (as claimed): in every iteration of the main loop, whatever the
\* command line and the config file hold, the raster handed to encode_h264
\* is 480x480 in mode RGB.
C12_EncoderRaster480 ==
    (fctx = "main" /\ handed # 0) =>
        /\ heap[handed].w = 480
        /\ heap[handed].h = 480
        /\ heap[handed].mode = "RGB"

----------------------------------------------------------------------------
(* The background cache *)

\* the last call of load_background found its (path, mode) cached
CallHit == call.pre_last_ok = <<call.path, call.mode>>

\* C13: the cache holds nothing or the raster of the most recently decoded
\* (path, mode), under the key of that pair; a call of load_background
\* with the cached (path, mode) returns the cached raster itself, calls
\* Image.open not at all and leaves the cache alone; a call with another
\* (path, mode) whose file decodes opens the file, makes a new raster
\* (rescaled, in a supported mode), returns it and caches it under the new
\* pair.
C13_CacheOneEntry ==
    /\ IF last_ok = <<>>
       THEN bg_image_cache = 0 /\ bg_image_cache_key = ""
       ELSE /\ bg_image_cache \in 1..Len(heap)
            /\ bg_image_cache_key = last_ok[1] \o ":" \o last_ok[2]
    /\ (call.n > 0 /\ CallHit) =>
        /\ call.ret = call.pre_cache
        /\ call.ret # 0
        /\ opens = call.pre_opens
        /\ bg_image_cache = call.pre_cache
        /\ last_ok = call.pre_last_ok
    /\ (call.n > 0 /\ ~CallHit /\ call.file = "ok") =>
        /\ opens = call.pre_opens + 1
        /\ call.ret \notin {0, call.pre_cache}
        /\ bg_image_cache = call.ret
        /\ last_ok = <<call.path, call.mode>>
        /\ heap[call.ret].src.state = "ok"
        /\ call.mode \in SCALING_MODES =>
            heap[call.ret].op \in {"stretch", "paste", "crop"}

\* three calls: a decode, a hit, and a decode of the same path in another
\* mode that replaced the entry
C13_Witness ==
    /\ fctx = "api" /\ call.n = 3 /\ opens = 2 /\ Len(heap) = 2
    /\ call.path = "bg.png" /\ call.mode = "fit"
    /\ call.pre_last_ok = <<"bg.png", "fill">>
    /\ call.pre_cache = 1 /\ bg_image_cache = 2

\* C15: a call of load_background whose file cannot be opened or decoded
\* returns None and leaves the cached raster and the cache key as they
\* were; main then holds no background, goes on into its loop and every
\* frame it composes is made on the themed default.
C15_FailedLoadKeepsCache ==
    /\ (call.n > 0 /\ ~CallHit /\ call.file \in {"missing", "truncated"}) =>
        /\ call.ret = 0
        /\ bg_image_cache = call.pre_cache
        /\ bg_image_cache_key = call.pre_key
        /\ last_ok = call.pre_last_ok
    /\ (fctx = "main" /\ call.n > 0 /\ call.ret = 0) =>
        /\ fpc \in {"render", "encode", "raised"}
        /\ bg_obj = 0
        /\ img # 0 => heap[img].op = "default"
        /\ handed # 0 => heap[handed].op = "default"

\* main could not decode its background and has given a frame made on the
\* themed default to the encoder
C15_Witness ==
    /\ fctx = "main" /\ call.n = 1 /\ call.file = "truncated"
    /\ fargs.bg = "bg.png" /\ fiter = 2
    /\ handed # 0 /\ heap[handed].op = "default" /\ heap[handed].text

----------------------------------------------------------------------------
(* create_frame and the background it is given *)

\* the rasters with text on them
Drawn == {i \in 1..Len(heap) : heap[i].text}

C18_StateInv ==
    /\ bg_image_cache \notin Drawn
    /\ bg_obj \notin Drawn
    /\ (fctx = "main" /\ fargs.preset = "none" /\ bg_obj # 0 /\ img # 0) =>
        IF fargs.show_overlay
        THEN img # bg_obj /\ img \in Drawn /\ heap[img].src = heap[bg_obj].src
        ELSE img = bg_obj

C18_StepInv ==
    /\ \A i \in 1..Len(heap) : i <= Len(heap') /\ heap'[i] = heap[i]
    /\ (img' # img) =>
        \/ img' = bg_obj /\ heap' = heap
        \/ /\ img' = Len(heap) + 1 /\ Len(heap') = Len(heap) + 1
           /\ heap'[img'].text \/ heap'[img'].op = "default"
    /\ (fctx = "api" /\ fiter' = fiter + 1 /\ call' = call /\ fpc' = "idle") =>
        \/ img' = bg_obj /\ bg_obj # 0 /\ heap' = heap
        \/ /\ img' = Len(heap) + 1 /\ Len(heap') = Len(heap) + 1
           /\ heap'[img'].text \/ heap'[img'].op = "default"

\* C18: create_frame never changes the pixels of the background it is
\* given: no raster of the heap is changed once it is made, the cached
\* raster and the raster the caller holds never carry text, with the
\* overlay off create_frame returns the background object itself and makes
\* no raster, and with the overlay on the text is on a new raster made of
\* the background.
C18_BackgroundNeverDrawnOn == []C18_StateInv /\ [][C18_StepInv]_vars

\* a frame with text was made of the cached background, which a later
\* cache hit returned unchanged
C18_Witness ==
    /\ fctx = "api" /\ call.n = 2 /\ CallHit /\ call.ret = 1
    /\ Len(heap) = 2 /\ heap[2].text /\ heap[2].src = heap[1].src
    /\ ~heap[1].text /\ bg_image_cache = 1

----------------------------------------------------------------------------
(* The smoothed CPU usage *)

RECURSIVE Filtered(_)
\* the filter of the claim on the readings rs, as a fraction: the first
\* reading, then 0.7 of the previous value plus 0.3 of the reading
Filtered(rs) ==
    IF Len(rs) = 1
    THEN <<rs[1], 1>>
    ELSE LET prev == Filtered(SubSeq(rs, 1, Len(rs) - 1))
         IN  <<7 * prev[1] + 3 * rs[Len(rs)] * prev[2], 10 * prev[2]>>

\* C19 (as claimed): after the readings r1..rn the smoothed value is r1 for
\* n = 1 and 0.7 of the previous smoothed value plus 0.3 of rn for n >= 2,
\* whatever the readings are.
C19_SmoothingSeededOnce ==
    samples # <<>> =>
        last_cpu_percent[1] * Filtered(samples)[2] =
            Filtered(samples)[1] * last_cpu_percent[2]

----------------------------------------------------------------------------
(* The scaling modes *)

Max(a, b) == IF a >= b THEN a ELSE b

\* load_background has returned the raster of the source w0 x h0
Scaled == fctx = "scale" /\ fpc = "returned"
Result == heap[call.ret]
w0 == fn_in.file.w
h0 == fn_in.file.h

\* the content cw x ch has the aspect ratio of the source, up to the
\* rounding of one side to a whole pixel
Uniform(cw, ch) == Abs(cw * h0 - ch * w0) < Max(w0, h0)

\* C14: in each of the three modes, for a readable source of any size
\* (smaller than, equal to or larger than 480 on either axis) and mode,
\* load_background returns a raster of 480x480 in mode RGB.
C14_LoadedSize480 ==
    Scaled =>
        /\ call.ret # 0
        /\ Result.w = 480
        /\ Result.h = 480
        /\ Result.mode = "RGB"

\* the fill mode on an RGBA source narrower and taller than the display
C14_Witness ==
    /\ Scaled /\ fn_in.mode = "fill"
    /\ fn_in.file.mode = "RGBA" /\ w0 = 100 /\ h0 = 2000
    /\ Result.w = 480 /\ Result.h = 480

\* C16 (as claimed): in fill mode a source of at least 480 on both axes is
\* scaled with its aspect ratio kept until it covers 480x480 and is then
\* cropped about its centre to 480x480; the stretch that does not keep the
\* ratio is used only for a source smaller than 480 on some axis.
C16_FillCoversAndCrops ==
    (Scaled /\ fn_in.mode = "fill") =>
        /\ (w0 >= 480 /\ h0 >= 480) =>
            /\ Result.op = "crop"
            /\ Result.scaled[1] >= 480 /\ Result.scaled[2] >= 480
            /\ Uniform(Result.scaled[1], Result.scaled[2])
            /\ Result.at = <<(Result.scaled[1] - 480) \div 2,
                              (Result.scaled[2] - 480) \div 2>>
        /\ Result.op = "stretch" => (w0 < 480 \/ h0 < 480)

\* what the fit mode does with every source: the content is the source
\* scaled with its ratio kept and never enlarged, at most 480 on each axis,
\* pasted about the centre of a black 480x480 canvas
FitLetterbox ==
    /\ Result.op = "paste"
    /\ Result.w = 480 /\ Result.h = 480
    /\ Result.scaled[1] <= 480 /\ Result.scaled[2] <= 480
    /\ Result.scaled[1] <= w0 /\ Result.scaled[2] <= h0
    /\ Uniform(Result.scaled[1], Result.scaled[2])
    /\ Result.at = <<(480 - Result.scaled[1]) \div 2,
                      (480 - Result.scaled[2]) \div 2>>

\* the canvas shows beside the content
HasMargin == Result.scaled[1] < 480 \/ Result.scaled[2] < 480

\* C17 (as claimed): in fit mode the source is scaled uniformly, never
\* enlarged, to a content of w x h with w <= 480 and h <= 480 and pasted at
\* ((480-w)//2, (480-h)//2) on a black 480x480 canvas, and whenever the
\* source is not square the content is smaller than 480 on some axis, so a
\* black margin is left.
C17_FitMarginUnlessSquare ==
    (Scaled /\ fn_in.mode = "fit") =>
        /\ FitLetterbox
        /\ w0 # h0 => HasMargin

\* C17: in fit mode the source is scaled uniformly, never enlarged, to a
\* content of w x h with w <= 480 and h <= 480 and pasted at
\* ((480-w)//2, (480-h)//2) on a black 480x480 canvas; a black margin is
\* left whenever the shorter side of the source is at most 479/480 of the
\* longer one, or the source is not square and fits in 480x480.
C17_FitMargin ==
    (Scaled /\ fn_in.mode = "fit") =>
        /\ FitLetterbox
        /\ (\/ 480 * Min(w0, h0) <= 479 * Max(w0, h0)
            \/ w0 # h0 /\ w0 <= 480 /\ h0 <= 480) => HasMargin

\* a 960x958 source is reduced to 480x479: one black row is left
C17_Witness ==
    /\ Scaled /\ fn_in.mode = "fit" /\ w0 = 960 /\ h0 = 958
    /\ Result.scaled = <<480, 479>> /\ Result.at = <<0, 0>>

----------------------------------------------------------------------------
(* The columns of the matrix preset *)

\* what a call of render does to the columns, NewSpeeds being the speeds a
\* reset may draw: each column is advanced by its own speed; a column whose
\* y after the advance is above height + 100 = 580, and no other, is reset:
\* y in [-200, 0), a glyph of the pool, a speed of NewSpeeds, the other
\* fields kept; a column that is not reset changes in y alone, so no
\* column is changed by the reset of another; and y decreases only in a
\* reset.
RenderColumns(NewSpeeds) ==
    (mctx = "matrix" /\ frame_count' = frame_count + 1) =>
        \A c \in DOMAIN columns :
            LET old == columns[c]
                new == columns'[c]
                y   == old.y + old.speed
            IN  /\ IF y > 580 * Quarter
                   THEN /\ new.y >= (-200) * Quarter /\ new.y < 0
                        /\ new.char \in char_pool
                        /\ new.speed \in NewSpeeds
                        /\ new.trail_length = old.trail_length
                        /\ new.brightness = old.brightness
                   ELSE new = [old EXCEPT !.y = y]
                /\ new.y < old.y => y > 580 * Quarter

\* C20 (as claimed): in render every column is advanced by its own speed
\* and is reset (y into [-200,0), new glyph, new speed in [1.5,3.0)) if and
\* only if its y after the advance exceeds 580; the reset of a column
\* changes no other column and y decreases nowhere else.
C20_ResetSpeedHalfOpen ==
    [][RenderColumns({sp \in 0..100 : 6 <= sp /\ sp < 12})]_vars

\* C20: in render every column is advanced by its own speed and is reset
\* (y into [-200,0), new glyph, new speed in [1.5,3.0], both ends
\* included) if and only if its y after the advance exceeds 580; the reset
\* of a column changes no other column and y decreases nowhere else.
C20_ColumnReset ==
    [][RenderColumns({sp \in 0..100 : 6 <= sp /\ sp <= 12})]_vars

\* column 0 has left the screen and was reset while column 1, which came to
\* rest on y = 580 exactly, was only advanced
C20_Witness ==
    /\ mctx = "matrix" /\ frame_count = 212
    /\ columns[0].y < 0 /\ columns[0].speed = 12
    /\ columns[1].y = 580 * Quarter
    /\ columns[2].y = (-200) * Quarter + 212 * 6

\* ---------------------------------------------------------------------
\* presets.py HeartbeatPreset._calculate_pulse_intensity and the block
\* lookup of HeartbeatPreset.render, on fractions <<numerator, denominator>>
\* with a positive denominator.

FracMul(p, q) == <<p[1] * q[1], p[2] * q[2]>>

FracMin(p, q) == IF FracLe(p, q) THEN p ELSE q

FracMax(p, q) == IF FracLe(p, q) THEN q ELSE p

\* presets.py line 276: the 8 block glyphs, by index
blocks == <<"b1", "b2", "b3", "b4", "b5", "b6", "b7", "b8">>

\* presets.py line 279
segment_count == 16

\* the value returned with no clamp at line 416
Unclamped(intensity) == intensity

\* line 416: max(0.0, min(1.0, intensity))
Clamp01(intensity) == FracMax(<<0, 1>>, FracMin(<<1, 1>>, intensity))

\* lines 401-416; sin is math.sin(pulse_phase + wave_offset) in thousandths
calculate_pulse_intensity(segment_idx, cpu_load, sin) ==
    LET base_intensity == FracMin(<<12, 10>>, <<cpu_load, 80>>)
        pulse_wave == <<sin + 1000, 2000>>
        center_boost == <<10 * (segment_count \div 2) - 4 * segment_idx,
                          10 * (segment_count \div 2)>>
    IN  Clamp01(FracMul(FracMul(base_intensity, pulse_wave), center_boost))

\* lines 446, 452: int(intensity * (len(self.blocks) - 1))
block_idx(intensity) == Floor(intensity[1] * (Len(blocks) - 1), intensity[2])

\* segment indices of range(half_segments)
PulseSegments == 0 .. (segment_count \div 2) - 1

\* smoothed CPU loads in percent
PulseLoads == {0, 1, 40, 79, 80, 81, 96, 97, 100}

\* values of math.sin in thousandths, both ends of [-1, 1] included
PulseSines == {-1000, -999, -707, -1, 0, 1, 500, 707, 999, 1000}

PulseInputs ==
    [fn : {"pulse"}, segment_idx : PulseSegments, cpu_load : PulseLoads,
     sin : PulseSines]

\* one evaluation of lines 445-447 for a drawn segment, load and sine
PulseApply ==
    /\ fn_out = <<>>
    /\ LET intensity == calculate_pulse_intensity(fn_in.segment_idx,
                                                   fn_in.cpu_load, fn_in.sin)
       IN  fn_out' = <<[intensity |-> intensity,
                        block_idx |-> block_idx(intensity)]>>
    /\ UNCHANGED <<fn_in, usbVars, composerVars, matrixVars, heartVars,
                   cleanupVars>>

InitPulse ==
    /\ fn_in \in PulseInputs
    /\ fn_out = <<>>
    /\ UsbOff /\ ComposerOff /\ MatrixOff /\ HeartOff /\ CleanupOff

NextPulse == PulseApply

SpecPulse == InitPulse /\ [][NextPulse]_vars

\* C21: for every segment index 0..7, every load in [0,100] and every
\* value of the sine (hence every frame count) the pulse intensity lies in
\* [0,1] and the block index floor(intensity*7) lies in 0..7, an index of
\* the 8-glyph block table.
C21_PulseInRange ==
    fn_out # <<>> =>
        LET intensity == fn_out[1].intensity
            idx == fn_out[1].block_idx
        IN  /\ FracLe(<<0, 1>>, intensity) /\ FracLe(intensity, <<1, 1>>)
            /\ idx \in 0 .. 7
            /\ idx + 1 \in DOMAIN blocks
            /\ idx * intensity[2] <= 7 * intensity[1]
            /\ 7 * intensity[1] < (idx + 1) * intensity[2]

\* the product 1.2 * 1 * 1 of the centre segment at full load and peak of
\* the wave was cut to 1 and selects the last glyph
C21_Witness ==
    /\ fn_out # <<>>
    /\ fn_in.segment_idx = 0 /\ fn_in.cpu_load = 100 /\ fn_in.sin = 1000
    /\ fn_out[1].intensity[1] = fn_out[1].intensity[2]
    /\ fn_out[1].block_idx = 7

\* ---------------------------------------------------------------------
\* presets.py MatrixPreset._interpolate_color and the trail loop of
\* MatrixPreset.render; brightness is a fraction <<numerator, denominator>>.

\* line 73: random.randint(5, 15)
TrailLengths == 5 .. 15

\* line 197: brightness = 1.0 - (i / trail_length)
brightness_of(i, trail_length) == <<trail_length - i, trail_length>>

\* the thresholds of lines 157-162 met with >= in place of >
interpolate_color_ge(brightness) ==
    IF FracLe(<<3, 4>>, brightness) THEN "bright"
    ELSE IF FracLe(<<1, 2>>, brightness) THEN "mid"
    ELSE IF FracLe(<<1, 4>>, brightness) THEN "dim"
    ELSE "very_dim"

\* lines 157-164, by the key of self.colors that is returned
interpolate_color(brightness) ==
    IF ~FracLe(brightness, <<3, 4>>) THEN "bright"
    ELSE IF ~FracLe(brightness, <<1, 2>>) THEN "mid"
    ELSE IF ~FracLe(brightness, <<1, 4>>) THEN "dim"
    ELSE "very_dim"

ShadeInputs ==
    {in \in [fn : {"shade"}, trail_length : TrailLengths, i : 0 .. 14] :
        in.i < in.trail_length}

\* lines 196-198 for one segment of one column
ShadeApply ==
    /\ fn_out = <<>>
    /\ fn_out' =
         <<interpolate_color(brightness_of(fn_in.i, fn_in.trail_length))>>
    /\ UNCHANGED <<fn_in, usbVars, composerVars, matrixVars, heartVars,
                   cleanupVars>>

InitShade ==
    /\ fn_in \in ShadeInputs
    /\ fn_out = <<>>
    /\ UsbOff /\ ComposerOff /\ MatrixOff /\ HeartOff /\ CleanupOff

NextShade == ShadeApply

SpecShade == InitShade /\ [][NextShade]_vars

ShadeRank(shade) ==
    CASE shade = "bright" -> 3
      [] shade = "mid" -> 2
      [] shade = "dim" -> 1
      [] shade = "very_dim" -> 0

\* C26: for every trail length t in 5..15 and segment i in 0..t-1 the
\* shade is bright iff 4i < t, mid iff t <= 4i < 2t, dim iff 2t <= 4i < 3t
\* and very-dim otherwise; the head segment is bright and no segment
\* further up the trail is brighter than one nearer the head.
C26_ShadeThresholds ==
    fn_out # <<>> =>
        LET t == fn_in.trail_length
            i == fn_in.i
            shade == fn_out[1]
        IN  /\ shade = "bright" <=> 4 * i < t
            /\ shade = "mid" <=> (t <= 4 * i /\ 4 * i < 2 * t)
            /\ shade = "dim" <=> (2 * t <= 4 * i /\ 4 * i < 3 * t)
            /\ shade = "very_dim" <=> 3 * t <= 4 * i
            /\ i = 0 => shade = "bright"
            /\ \A j \in 0 .. t - 1 :
                 j > i => ShadeRank(interpolate_color(brightness_of(j, t)))
                              <= ShadeRank(shade)

\* a segment whose brightness is 0.75 exactly (i = 3 of 12) is mid
C26_Witness ==
    /\ fn_out = <<"mid">>
    /\ fn_in.trail_length = 12 /\ fn_in.i = 3

\* ---------------------------------------------------------------------
\* cli.py parse_color.  A string is a sequence of one-character strings.

Whitespace == {" "}

RECURSIVE LStrip(_)
LStrip(s) ==
    IF s # <<>> /\ s[1] \in Whitespace THEN LStrip(Tail(s)) ELSE s

RECURSIVE RStrip(_)
RStrip(s) ==
    IF s # <<>> /\ s[Len(s)] \in Whitespace
    THEN RStrip(SubSeq(s, 1, Len(s) - 1))
    ELSE s

\* str.strip()
Strip(s) == RStrip(LStrip(s))

UpperLetters ==
    <<"A", "B", "C", "D", "E", "F", "G", "H", "I", "J", "K", "L", "M", "N",
      "O", "P", "Q", "R", "S", "T", "U", "V", "W", "X", "Y", "Z">>

LowerLetters ==
    <<"a", "b", "c", "d", "e", "f", "g", "h", "i", "j", "k", "l", "m", "n",
      "o", "p", "q", "r", "s", "t", "u", "v", "w", "x", "y", "z">>

LowerChar(c) ==
    IF \E k \in DOMAIN UpperLetters : UpperLetters[k] = c
    THEN LowerLetters[CHOOSE k \in DOMAIN UpperLetters : UpperLetters[k] = c]
    ELSE c

\* str.lower()
LowerStr(s) == [k \in 1 .. Len(s) |-> LowerChar(s[k])]

RECURSIVE Join(_)
Join(s) == IF s = <<>> THEN "" ELSE s[1] \o Join(Tail(s))

\* gaii_control/config.py lines 47-67
COLOR_TEMPLATES ==
    [name \in {"black", "red", "green", "yellow", "blue", "magenta", "cyan",
               "white", "gray", "grey", "bright_red", "bright_green",
               "bright_yellow", "bright_blue", "bright_magenta",
               "bright_cyan", "bright_white"} |->
        CASE name = "black" -> <<0, 0, 0>>
          [] name = "red" -> <<255, 0, 0>>
          [] name = "green" -> <<0, 255, 0>>
          [] name = "yellow" -> <<255, 255, 0>>
          [] name = "blue" -> <<0, 0, 255>>
          [] name = "magenta" -> <<255, 0, 255>>
          [] name = "cyan" -> <<0, 255, 255>>
          [] name = "white" -> <<255, 255, 255>>
          [] name = "gray" -> <<128, 128, 128>>
          [] name = "grey" -> <<128, 128, 128>>
          [] name = "bright_red" -> <<255, 64, 64>>
          [] name = "bright_green" -> <<64, 255, 64>>
          [] name = "bright_yellow" -> <<255, 255, 64>>
          [] name = "bright_blue" -> <<64, 64, 255>>
          [] name = "bright_magenta" -> <<255, 64, 255>>
          [] name = "bright_cyan" -> <<64, 255, 255>>
          [] name = "bright_white" -> <<255, 255, 255>>]

DigitChars ==
    <<"0", "1", "2", "3", "4", "5", "6", "7", "8", "9", "a", "b", "c", "d",
      "e", "f">>

IsDigit(c, base) == \E k \in 1 .. base : DigitChars[k] = LowerChar(c)

DigitVal(c) == (CHOOSE k \in DOMAIN DigitChars : DigitChars[k] = LowerChar(c)) - 1

RECURSIVE DigitsValue(_, _, _)
DigitsValue(s, base, acc) ==
    IF s = <<>> THEN acc
    ELSE IF s[1] = "_" THEN DigitsValue(Tail(s), base, acc)
    ELSE DigitsValue(Tail(s), base, acc * base + DigitVal(s[1]))

\* the digit part of an int() literal: digits with single underscores
\* between them
IsDigitString(s, base) ==
    /\ s # <<>>
    /\ IsDigit(s[1], base) /\ IsDigit(s[Len(s)], base)
    /\ \A k \in DOMAIN s : IsDigit(s[k], base) \/ s[k] = "_"
    /\ \A k \in 1 .. Len(s) - 1 : ~(s[k] = "_" /\ s[k + 1] = "_")

\* Python int(s, base) for base 10 and for a two-character slice in base 16
\* (where a 0x prefix has no digit after it and is an error as well):
\* surrounding whitespace is dropped, one sign is accepted; ok = FALSE is
\* ValueError
PyInt(s, base) ==
    LET t == Strip(s)
        signed == t # <<>> /\ t[1] \in {"+", "-"}
        body == IF signed THEN Tail(t) ELSE t
        value == DigitsValue(body, base, 0)
    IN  IF IsDigitString(body, base)
        THEN [ok |-> TRUE,
              val |-> IF signed /\ t[1] = "-" THEN -value ELSE value]
        ELSE [ok |-> FALSE, val |-> 0]

HasComma(s) == \E k \in DOMAIN s : s[k] = ","

\* str.split(",")
RECURSIVE Split(_)
Split(s) ==
    IF ~HasComma(s) THEN <<s>>
    ELSE LET k == CHOOSE j \in DOMAIN s :
                     s[j] = "," /\ \A i \in 1 .. j - 1 : s[i] # ","
         IN  <<SubSeq(s, 1, k - 1)>> \o Split(SubSeq(s, k + 1, Len(s)))

Returned(color) == [raised |-> FALSE, color |-> color]

\* argparse.ArgumentTypeError, lines 53-56
Raised == [raised |-> TRUE, color |-> <<>>]

\* cli.py lines 23-56
parse_color(input) ==
    LET color_str == Strip(input)
        color_lower == Join(LowerStr(color_str))
        hex_str == IF color_str # <<>> /\ color_str[1] = "#"
                   THEN Tail(color_str)
                   ELSE color_str
        r == PyInt(SubSeq(hex_str, 1, 2), 16)
        g == PyInt(SubSeq(hex_str, 3, 4), 16)
        b == PyInt(SubSeq(hex_str, 5, 6), 16)
        split == Split(color_str)
        parts == [k \in 1 .. Len(split) |-> PyInt(Strip(split[k]), 10)]
    IN  IF color_lower \in DOMAIN COLOR_TEMPLATES
        THEN Returned(COLOR_TEMPLATES[color_lower])
        ELSE IF Len(hex_str) = 6 /\ r.ok /\ g.ok /\ b.ok
        THEN Returned(<<r.val, g.val, b.val>>)
        ELSE IF /\ HasComma(color_str)
                /\ \A k \in DOMAIN parts : parts[k].ok
                /\ Len(parts) = 3
                /\ \A k \in DOMAIN parts : parts[k].val \in 0 .. 255
        THEN Returned(<<parts[1].val, parts[2].val, parts[3].val>>)
        ELSE Raised

\* characters of the generated six-character inputs: two hexadecimal
\* digits, a sign and a letter that is no digit
ColorChars == {"0", "F", "-", "g"}

ColorStrings ==
    {<<"r", "e", "d">>, <<" ", "R", "e", "d", " ">>,
     <<"g", "r", "e", "y">>, <<"r", "e", "d", "s">>, <<>>,
     <<"f", "f", "f">>, <<"#", "#", "0", "0", "0", "0", "0", "0">>,
     <<"f", "f", " ", "f", " ", "f">>, <<"+", "1", "+", "2", "+", "3">>,
     <<"0", "x", "0", "x", "0", "x">>, <<"1", "_", "2", "_", "3", "_">>,
     <<"0", ",", "2", "5", "5", ",", "0">>,
     <<" ", "1", " ", ",", "2", ",", " ", "3">>,
     <<"2", "5", "6", ",", "0", ",", "0">>, <<"-", "1", ",", "0", ",", "0">>,
     <<"#", "-", "1", ",", "0", ",", "0">>, <<"1", ",", "2">>,
     <<"1", ",", "2", ",", "3", ",", "4">>, <<"1", ",", "2", ",", "3", ",">>,
     <<"1", ",", ",", "3">>, <<"a", ",", "b", ",", "c">>}
    \cup [1 .. 6 -> ColorChars]
    \cup {<<"#">> \o s : s \in [1 .. 6 -> ColorChars]}

ColorInputs == [fn : {"color"}, color_str : ColorStrings]

\* one call parse_color(color_str)
ColorApply ==
    /\ fn_out = <<>>
    /\ fn_out' = <<parse_color(fn_in.color_str)>>
    /\ UNCHANGED <<fn_in, usbVars, composerVars, matrixVars, heartVars,
                   cleanupVars>>

InitColor ==
    /\ fn_in \in ColorInputs
    /\ fn_out = <<>>
    /\ UsbOff /\ ComposerOff /\ MatrixOff /\ HeartOff /\ CleanupOff

NextColor == ColorApply

SpecColor == InitColor /\ [][NextColor]_vars

IsColorName(s) == Join(LowerStr(Strip(s))) \in DOMAIN COLOR_TEMPLATES

IsHexColor(s) ==
    LET t == Strip(s)
        h == IF t # <<>> /\ t[1] = "#" THEN Tail(t) ELSE t
    IN  Len(h) = 6 /\ \A k \in DOMAIN h : IsDigit(h[k], 16)

IsRgbColor(s) ==
    LET split == Split(Strip(s))
    IN  /\ Len(split) = 3
        /\ \A k \in DOMAIN split :
             /\ PyInt(split[k], 10).ok
             /\ PyInt(split[k], 10).val \in 0 .. 255

\* C24: parse_color returns a triple with every component in 0..255
\* exactly when the trimmed input is a name of COLOR_TEMPLATES in any
\* case, six hexadecimal digits with an optional '#', or three
\* comma-separated integers in 0..255; for every other input it raises and
\* it never returns a component outside 0..255.
C24_ParseColorExact ==
    fn_out # <<>> =>
        LET out == fn_out[1]
            color_str == fn_in.color_str
        IN  /\ ~out.raised <=>
                 (IsColorName(color_str) \/ IsHexColor(color_str)
                                         \/ IsRgbColor(color_str))
            /\ ~out.raised =>
                 /\ Len(out.color) = 3
                 /\ \A k \in 1 .. 3 : out.color[k] \in 0 .. 255

\* ---------------------------------------------------------------------
\* cli.py parse_args and _apply_config_to_args.  An option of the command
\* line and a key of the config file are <<>> when absent and <<value>>
\* when given; an attribute of the namespace is <<value>>, or <<>> for None.

DEFAULT_FPS == 5

DEFAULT_OVERLAY_OPACITY == 180

None == <<>>

NoArgv ==
    [rgb |-> <<>>, fps |-> <<>>, bg |-> <<>>, bg_mode |-> <<>>,
     no_overlay |-> FALSE, overlay_opacity |-> <<>>]

NoConfig ==
    [rgb |-> <<>>, fps |-> <<>>, bg |-> <<>>, background |-> <<>>,
     bg_mode |-> <<>>, overlay_opacity |-> <<>>, overlay |-> <<>>]

\* cli.py lines 88-135 and 151: the namespace argparse returns; --rgb is
\* converted by parse_color
parser_parse_args(argv) ==
    [rgb |-> IF argv.rgb = <<>> THEN <<DEFAULT_RGB_COLOR>>
             ELSE <<parse_color(argv.rgb[1]).color>>,
     fps |-> IF argv.fps = <<>> THEN <<DEFAULT_FPS>> ELSE argv.fps,
     bg |-> IF argv.bg = <<>> THEN None ELSE argv.bg,
     bg_mode |-> IF argv.bg_mode = <<>> THEN <<DEFAULT_BG_MODE>>
                 ELSE argv.bg_mode,
     no_overlay |-> argv.no_overlay,
     overlay_opacity |-> IF argv.overlay_opacity = <<>>
                         THEN <<DEFAULT_OVERLAY_OPACITY>>
                         ELSE argv.overlay_opacity]

\* line 154
ClampOpacity(ns) ==
    [ns EXCEPT !.overlay_opacity = <<Max(0, Min(255, @[1]))>>]

\* lines 190-193: a colour string of the config file is converted; one
\* that parse_color rejects is skipped
ConfigRgb(config) ==
    IF config.rgb = <<>> \/ parse_color(config.rgb[1]).raised
    THEN <<>>
    ELSE <<parse_color(config.rgb[1]).color>>

\* lines 185-203 for one entry of mappings whose key is in the config
apply_mapping(config_key, current_val, config_val, default_value) ==
    IF /\ config_val # <<>>
       /\ \/ current_val = default_value
          \/ (config_key = "bg" /\ current_val = None)
    THEN config_val
    ELSE current_val

\* lines 169-210, the mappings in their order and then the overlay key
apply_config_to_args(ns, config) ==
    LET bg1 == apply_mapping("bg", ns.bg, config.bg, None)
    IN  [rgb |-> apply_mapping("rgb", ns.rgb, ConfigRgb(config),
                               <<DEFAULT_RGB_COLOR>>),
         fps |-> apply_mapping("fps", ns.fps, config.fps,
                               <<DEFAULT_FPS>>),
         bg |-> apply_mapping("background", bg1, config.background,
                              None),
         bg_mode |-> apply_mapping("bg_mode", ns.bg_mode,
                                   config.bg_mode, <<DEFAULT_BG_MODE>>),
         overlay_opacity |->
             apply_mapping("overlay_opacity", ns.overlay_opacity,
                           config.overlay_opacity,
                           <<DEFAULT_OVERLAY_OPACITY>>),
         no_overlay |->
             IF config.overlay # <<>> /\ ~config.overlay[1] /\ ~ns.no_overlay
             THEN TRUE
             ELSE ns.no_overlay]

\* lines 150-166; a config file that is absent or cannot be loaded is one
\* with no key
parse_args(argv, config) ==
    apply_config_to_args(ClampOpacity(parser_parse_args(argv)), config)

Opt(S) == {<<>>} \cup {<<v>> : v \in S}

ArgvRgb == {<<"0", ",", "2", "5", "5", ",", "2", "0", "0">>, <<"r", "e", "d">>}

ConfigRgbs == {<<"b", "l", "u", "e">>, <<"0", "0", "f", "f", "c", "8">>,
               <<"n", "o">>}

Pairs(argvs, configs) ==
    {[fn |-> "args", argv |-> a, config |-> c] : a \in argvs, c \in configs}

\* command lines and config files that set one option
ArgsInputs ==
    Pairs({[NoArgv EXCEPT !.rgb = v] : v \in Opt(ArgvRgb)},
          {[NoConfig EXCEPT !.rgb = v] : v \in Opt(ConfigRgbs)})
    \cup Pairs({[NoArgv EXCEPT !.fps = v] : v \in Opt({5, 10})},
               {[NoConfig EXCEPT !.fps = v] : v \in Opt({5, 30})})
    \cup Pairs({[NoArgv EXCEPT !.bg = v] : v \in Opt({"a.png"})},
               {[NoConfig EXCEPT !.bg = v, !.background = w] :
                    v \in Opt({"b.png"}), w \in Opt({"c.png"})})
    \cup Pairs({[NoArgv EXCEPT !.bg_mode = v] : v \in Opt(SCALING_MODES)},
               {[NoConfig EXCEPT !.bg_mode = v] :
                    v \in Opt({"fill", "fit", "zoom"})})
    \cup Pairs({[NoArgv EXCEPT !.overlay_opacity = v] :
                    v \in Opt({0, 180, 300})},
               {[NoConfig EXCEPT !.overlay_opacity = v] :
                    v \in Opt({180, 200, 999})})
    \cup Pairs({[NoArgv EXCEPT !.no_overlay = v] : v \in BOOLEAN},
               {[NoConfig EXCEPT !.overlay = v] : v \in Opt(BOOLEAN)})

\* one call parse_args(argv) with the config file found
ArgsApply ==
    /\ fn_out = <<>>
    /\ fn_out' = <<parse_args(fn_in.argv, fn_in.config)>>
    /\ UNCHANGED <<fn_in, usbVars, composerVars, matrixVars, heartVars,
                   cleanupVars>>

InitArgs ==
    /\ fn_in \in ArgsInputs
    /\ fn_out = <<>>
    /\ UsbOff /\ ComposerOff /\ MatrixOff /\ HeartOff /\ CleanupOff

NextArgs == ArgsApply

SpecArgs == InitArgs /\ [][NextArgs]_vars

\* the value of one option when the command line wins: the explicit
\* value, else the value of the config file, else the default
InEffect(given, config_val, default_value) ==
    IF given # <<>> THEN given
    ELSE IF config_val # <<>> THEN config_val
    ELSE default_value

\* C23: for every option (rgb, fps, bg, bg_mode, overlay_opacity, overlay)
\* a value given on the command line is the value in effect after
\* parse_args whatever the config file holds, and a value of the config
\* file is used only for an option the command line did not set.
C23_CliWins ==
    fn_out # <<>> =>
        LET ns == fn_out[1]
            argv == fn_in.argv
            config == fn_in.config
            parsed == ClampOpacity(parser_parse_args(argv))
        IN  /\ ns.rgb = InEffect(IF argv.rgb = <<>> THEN <<>> ELSE parsed.rgb,
                                   ConfigRgb(config), <<DEFAULT_RGB_COLOR>>)
            /\ ns.fps = InEffect(argv.fps, config.fps, <<DEFAULT_FPS>>)
            /\ ns.bg = InEffect(argv.bg,
                                  IF config.bg # <<>> THEN config.bg
                                  ELSE config.background, None)
            /\ ns.bg_mode = InEffect(argv.bg_mode, config.bg_mode,
                                       <<DEFAULT_BG_MODE>>)
            /\ ns.overlay_opacity =
                 InEffect(IF argv.overlay_opacity = <<>> THEN <<>>
                          ELSE parsed.overlay_opacity,
                          config.overlay_opacity, <<DEFAULT_OVERLAY_OPACITY>>)
            /\ ns.no_overlay =
                 (argv.no_overlay \/ (config.overlay # <<>> /\ ~config.overlay[1]))

\* ---------------------------------------------------------------------
\* presets.py HeartbeatPreset: the constructor and render.  hb_log is the
\* history of the readings of psutil.cpu_percent, one entry per render, and
\* fc_match_runs counts the runs of fc-match per font pattern.

MaxHbRenders == 7

\* presets.py line 289
cpu_history_size == 5

\* the patterns handed to fc-match (lines 300, 321, 510)
FontPatterns == {"NotoSansMono", "NotoSansMono:weight=bold"}

\* psutil.cpu_percent(interval=0) in percent
HbReadings == {0, 40, 100}

\* the entry of hb_log of a render whose reading raised
ReadRaised == -1

RECURSIVE SumSeq(_)
SumSeq(s) == IF s = <<>> THEN 0 ELSE s[1] + SumSeq(Tail(s))

\* a window that evicts as soon as it holds cpu_history_size samples
HistoryAtSize(history) == Len(history) >= cpu_history_size

\* line 346: len(self.cpu_history) > self.cpu_history_size
HistoryOver(history) == Len(history) > cpu_history_size

\* lines 345-347: append, then pop(0) when over the size
PushSample(history, cpu) ==
    LET appended == Append(history, cpu)
    IN  IF HistoryOver(appended) THEN Tail(appended) ELSE appended

\* a render that leaves the counter as it is
SameCount(n) == n

\* line 535: self.frame_count += 1
NextCount(n) == n + 1

\* lines 261-290: _load_bar_font and _load_cpu_font each run fc-match once
InitHeartbeat ==
    /\ UsbOff /\ ComposerOff /\ MatrixOff /\ FnOff /\ CleanupOff
    /\ hctx = "heartbeat"
    /\ hb_frame_count = 0
    /\ cpu_history = <<>>
    /\ hb_current_cpu = <<0, 1>>
    /\ hb_log = <<>>
    /\ fc_match_runs = [p \in FontPatterns |-> 1]

\* lines 418-536: render with a reading that succeeds (cpu >= 0) or raises;
\* the load is a fraction <<sum, count>>
HeartbeatRender ==
    /\ hctx = "heartbeat"
    /\ Len(hb_log) < MaxHbRenders
    /\ \E cpu \in HbReadings \cup {ReadRaised} :
        /\ hb_log' = Append(hb_log, cpu)
        /\ IF cpu = ReadRaised
           THEN /\ cpu_history' = cpu_history
                /\ hb_current_cpu' = <<0, 1>>
           ELSE /\ cpu_history' = PushSample(cpu_history, cpu)
                /\ hb_current_cpu' = <<SumSeq(cpu_history'), Len(cpu_history')>>
    /\ fc_match_runs' = [p \in FontPatterns |-> fc_match_runs[p] + 1]
    /\ hb_frame_count' = NextCount(hb_frame_count)
    /\ UNCHANGED <<hctx, usbVars, composerVars, matrixVars, fnVars,
                   cleanupVars>>

NextHeartbeat == HeartbeatRender

SpecHeartbeat == InitHeartbeat /\ [][NextHeartbeat]_vars

\* both animation engines, each built by its constructor
InitPresets == InitMatrix \/ InitHeartbeat

NextPresets == MatrixRender \/ HeartbeatRender

SpecPresets == InitPresets /\ [][NextPresets]_vars

\* the last n elements of s, or all of s when it is shorter
LastN(s, n) == SubSeq(s, Max(1, Len(s) - n + 1), Len(s))

Arrived(log) == SelectSeq(log, LAMBDA cpu : cpu # ReadRaised)

FracEq(p, q) == p[1] * q[2] = q[1] * p[2]

WindowOf(samples_read) ==
    /\ Len(cpu_history) <= 5
    /\ cpu_history = LastN(samples_read, 5)

\* C25 (as claimed): after any number of renders cpu_history holds the at
\* most 5 most recent samples in arrival order, one sample per render, and
\* the load of the frame is the mean of exactly those samples.
C25_SamplePerRender ==
    hctx = "heartbeat" =>
        /\ WindowOf(hb_log)
        /\ hb_log # <<>> =>
             /\ cpu_history # <<>>
             /\ FracEq(hb_current_cpu, <<SumSeq(cpu_history), Len(cpu_history)>>)

\* C25: after any number of renders cpu_history holds the at most 5 most
\* recent samples that were read, in arrival order: a render whose reading
\* succeeds appends exactly that sample, evicting the oldest when the
\* window is over 5, and uses the mean of the window as the load; a render
\* whose reading raises appends nothing and uses the load 0.
C25_Window ==
    hctx = "heartbeat" =>
        /\ WindowOf(Arrived(hb_log))
        /\ hb_log # <<>> =>
             IF hb_log[Len(hb_log)] = ReadRaised
             THEN hb_current_cpu = <<0, 1>>
             ELSE /\ cpu_history # <<>>
                  /\ cpu_history[Len(cpu_history)] = hb_log[Len(hb_log)]
                  /\ FracEq(hb_current_cpu,
                            <<SumSeq(cpu_history), Len(cpu_history)>>)

\* seven readings arrived, the two oldest were evicted and the load is the
\* mean 56 of the five that remain
C25_Witness ==
    /\ hctx = "heartbeat"
    /\ hb_log = <<100, 0, 40, 40, 100, 0, 100>>
    /\ cpu_history = <<40, 40, 100, 0, 100>>
    /\ FracEq(hb_current_cpu, <<56, 1>>)

\* C27: over any sequence of rendered frames fc-match is run at most once
\* per distinct font pattern.
C27_FontDiscoveryOnce ==
    \A p \in DOMAIN fc_match_runs : fc_match_runs[p] <= 1

\* C22: for both animation engines frame_count starts at 0, increases by
\* exactly 1 on every completed render and is changed by nothing else, so
\* after n renders it equals n and never decreases.
C22_CountsRenders ==
    /\ [](/\ hctx = "heartbeat" => hb_frame_count = Len(hb_log)
          /\ mctx = "matrix" =>
               columns[2].y = (-200) * Quarter + frame_count * columns[2].speed)
    /\ [][/\ hb_log' # hb_log => hb_frame_count' = hb_frame_count + 1
          /\ hb_log' = hb_log => hb_frame_count' = hb_frame_count
          /\ columns' # columns => frame_count' = frame_count + 1
          /\ columns' = columns => frame_count' = frame_count
          /\ frame_count' >= frame_count
          /\ hb_frame_count' >= hb_frame_count]_vars

\* the heartbeat engine has rendered seven frames
C22_Witness ==
    /\ hctx = "heartbeat" /\ Len(hb_log) = 7 /\ hb_frame_count = 7

\* ---------------------------------------------------------------------
\* usb_device.py cleanup_device, called any number of times on one device.
\* dev_log holds the operations attempted on the device: the operation,
\* whether it succeeded, and the number of the call that made it.

MaxCleanupCalls == 2

\* lines 160, 165, 170 in their order
CleanupOps == <<"release_interface", "attach_kernel_driver", "reset">>

\* an exception of a step that leaves cleanup_device
StepUncaught(ok) == ~ok

\* lines 159-171: each step is in its own try/except Exception, so its
\* failure is printed and does not leave the function
StepRaises(ok) == FALSE

CleanupStep(op, next_pc) ==
    \E ok \in BOOLEAN :
        /\ dev_log' = Append(dev_log, [op |-> op, ok |-> ok, call |-> ccalls])
        /\ cpc' = IF StepRaises(ok) THEN "raised" ELSE next_pc

\* lines 146-157: the call; a None device returns at once
CleanupCall ==
    /\ cctx = "cleanup" /\ cpc = "idle"
    /\ ccalls < MaxCleanupCalls
    /\ ccalls' = ccalls + 1
    /\ cpc' = IF device = "none" THEN "idle" ELSE "release"
    /\ UNCHANGED <<cctx, device, dev_log>>
    /\ UNCHANGED <<usbVars, composerVars, matrixVars, fnVars, heartVars>>

\* lines 159-162
CleanupRelease ==
    /\ cctx = "cleanup" /\ cpc = "release"
    /\ CleanupStep(CleanupOps[1], "attach")
    /\ UNCHANGED <<cctx, device, ccalls>>
    /\ UNCHANGED <<usbVars, composerVars, matrixVars, fnVars, heartVars>>

\* lines 164-167
CleanupAttach ==
    /\ cctx = "cleanup" /\ cpc = "attach"
    /\ CleanupStep(CleanupOps[2], "reset")
    /\ UNCHANGED <<cctx, device, ccalls>>
    /\ UNCHANGED <<usbVars, composerVars, matrixVars, fnVars, heartVars>>

\* lines 169-171, after which the call returns
CleanupReset ==
    /\ cctx = "cleanup" /\ cpc = "reset"
    /\ CleanupStep(CleanupOps[3], "idle")
    /\ UNCHANGED <<cctx, device, ccalls>>
    /\ UNCHANGED <<usbVars, composerVars, matrixVars, fnVars, heartVars>>

InitCleanup ==
    /\ UsbOff /\ ComposerOff /\ MatrixOff /\ FnOff /\ HeartOff
    /\ cctx = "cleanup"
    /\ cpc = "idle"
    /\ device \in {"none", "dev"}
    /\ dev_log = <<>>
    /\ ccalls = 0

NextCleanup == CleanupCall \/ CleanupRelease \/ CleanupAttach \/ CleanupReset

SpecCleanup == InitCleanup /\ [][NextCleanup]_vars

\* C29: cleanup_device never raises: for a None device it does nothing,
\* and otherwise every call attempts release-interface, re-attach-kernel-
\* driver and reset in that order, each attempted even if an earlier one
\* failed; a second call on the same device raises nothing either.
C29_CleanupNeverRaises ==
    cctx = "cleanup" =>
        /\ cpc # "raised"
        /\ device = "none" => dev_log = <<>> /\ cpc = "idle"
        /\ \A k \in DOMAIN dev_log :
             /\ dev_log[k].op = CleanupOps[((k - 1) % 3) + 1]
             /\ dev_log[k].call = ((k - 1) \div 3) + 1
        /\ (device = "dev" /\ cpc = "idle") => Len(dev_log) = 3 * ccalls
        /\ (device = "dev" /\ cpc = "release") => Len(dev_log) = 3 * ccalls - 3
        /\ (device = "dev" /\ cpc = "attach") => Len(dev_log) = 3 * ccalls - 2
        /\ (device = "dev" /\ cpc = "reset") => Len(dev_log) = 3 * ccalls - 1

\* two calls have returned; in the first the release and the re-attach
\* failed and the reset was still attempted, in the second every step failed
C29_Witness ==
    /\ cctx = "cleanup" /\ cpc = "idle" /\ ccalls = 2
    /\ Len(dev_log) = 6
    /\ ~dev_log[1].ok /\ ~dev_log[2].ok /\ dev_log[3].ok
    /\ \A k \in 4 .. 6 : ~dev_log[k].ok

\* ---------------------------------------------------------------------
\* glc.py main: the exits after setup_device has claimed the interface

\* the positions of main after setup_device (line 57) has returned
ClaimedPcs ==
    {"get_endpoint", "set_rgb"} \cup TryPcs
        \cup {"except_kbd", "except_exc", "finally"}

\* C28: on every path by which main returns or raises after setup_device
\* has claimed the interface (a failure of get_endpoint or of the first
\* set_rgb_color, a user interrupt, an exception in the loop)
\* cleanup_device has been called at least once when main ends.
C28_CleanupBeforeMainEnds ==
    [][(ctx = "main" /\ pc \in ClaimedPcs /\ pc' \in {"done", "raised"})
          => cleanups' >= 1]_vars

\* ---------------------------------------------------------------------
\* presets.py MatrixPreset: the column table over any number of renders

ColumnKeys == 0 .. 47

ColumnsInRange ==
    /\ DOMAIN columns = ColumnKeys
    /\ \A c \in ColumnKeys :
         /\ (-200) * Quarter <= columns[c].y
         /\ columns[c].y <= 580 * Quarter
         /\ 6 <= columns[c].speed /\ columns[c].speed <= 12
         /\ columns[c].trail_length \in TrailLengths

\* C30: for a MatrixPreset built by its constructor, after any number of
\* renders the columns have exactly the keys 0..47, every column has
\* -200 <= y <= 580 and 1.5 <= speed <= 3.0, and every column keeps the
\* trail_length in 5..15 it was built with: neither render nor a reset
\* changes it or replaces the table of columns.
C30_ColumnsKept ==
    /\ [](mctx = "matrix" => ColumnsInRange)
    /\ [][mctx = "matrix" =>
            /\ DOMAIN columns' = DOMAIN columns
            /\ \A c \in DOMAIN columns :
                 /\ columns'[c].trail_length = columns[c].trail_length
                 /\ columns'[c].brightness = columns[c].brightness
                 /\ DOMAIN columns'[c] = DOMAIN columns[c]]_vars

\* column 0 was reset with the largest speed and kept its trail of 5 while
\* column 1 lies on y = 580, the largest y a column can have
C30_Witness ==
    /\ mctx = "matrix" /\ frame_count > 200
    /\ columns[0].speed = 12 /\ columns[0].y < 0
    /\ columns[0].trail_length = 5
    /\ columns[1].y = 580 * Quarter
    /\ columns[47].trail_length = 8

====
